---- MODULE Spec2Model ----
(***************************************************************************)
(* Model of the weather gateway: the Location Resolver, the Tomorrow.io    *)
(* client (mock and live), the realtime normalizer, the batch aggregator,  *)
(* the POST /batch route with its Joi schema, and the JWT Auth Gate.       *)
(*                                                                         *)
(* Conventions                                                             *)
(*   - an optional value (a field that may be undefined) is a set with at  *)
(*     most one element: Undefined is {}, Some(v) is {v};                  *)
(*   - a string that the code inspects (a city, a location name) is a      *)
(*     sequence of characters;                                             *)
(*   - coordinates are integers in units of 10^-CoordDigits degrees and    *)
(*     weather values integers in units of 10^-ValueDigits, so that the    *)
(*     toFixed roundings of the code are real roundings in the model.      *)
(***************************************************************************)
EXTENDS Integers, Sequences, FiniteSets, TLC

VARIABLES
    mode,           \* ENV.USE_MOCK_WEATHER: "mock" or "live"
    rand,           \* the draw of Math.random() of this run, a digit 0..9
    op,             \* the operation in progress
    pc,             \* its position
    body,           \* the input of the operation: the locations of the body of POST /batch,
                    \* the query string of a GET route, the argument of a pure function
    batch,          \* the LocationQuery list getBatchWeather or getRealTimeWeatherData was given
    fetch,          \* per input position, the state of its getRealTimeWeatherData promise
    upstreamCalls,  \* number of HTTP calls issued to the provider (live mode)
    mockCalls,      \* number of mock payloads produced (mock mode)
    entered,        \* the service functions entered while handling the request
    result,         \* what the service operation returned or threw
    response,       \* the HTTP response sent by a route or by the error handler
    req,            \* the request seen by the Auth Gate
    res,            \* the response the Auth Gate sent, if any
    nextCalls,      \* how many times the Auth Gate called next()
    boot,           \* the position of StartServer: the step it is about to run
    steps,          \* the startup steps completed, in the order of their completion
    listening,      \* whether the HTTP server is listening
    exitCode,       \* the code the process exited with, if it has
    db              \* the database module: its isConnected flag, the driver's readyState,
                    \* the call in flight, the listener sets registered, the driver
                    \* calls issued, and the most recent call or driver event

vars == <<mode, rand, op, pc, body, batch, fetch, upstreamCalls, mockCalls, entered,
          result, response, req, res, nextCalls, boot, steps, listening, exitCode, db>>

weatherVars == <<body, batch, fetch, upstreamCalls, mockCalls, entered, result, response>>
authVars == <<req, res, nextCalls>>
serverVars == <<boot, steps, listening, exitCode, db>>

-----------------------------------------------------------------------------
(* Optional values and strings *)

Undefined == {}
Some(v) == {v}
IsDefined(o) == o # {}
Val(o) == CHOOSE v \in o : TRUE

RECURSIVE TrimLeft(_)
TrimLeft(s) ==
    IF s # <<>> /\ Head(s) = " " THEN TrimLeft(Tail(s)) ELSE s

RECURSIVE TrimRight(_)
TrimRight(s) ==
    IF s # <<>> /\ s[Len(s)] = " " THEN TrimRight(SubSeq(s, 1, Len(s) - 1)) ELSE s

\* String.prototype.trim
Trim(s) == TrimRight(TrimLeft(s))

\* String.prototype.includes
Includes(s, p) ==
    \E i \in 1..(Len(s) - Len(p) + 1) : SubSeq(s, i, i + Len(p) - 1) = p

LowerChar(c) ==
    CASE c = "L" -> "l"
      [] c = "P" -> "p"
      [] c = "A" -> "a"
      [] OTHER -> c

\* String.prototype.toLowerCase
ToLowerCase(s) == [i \in 1..Len(s) |-> LowerChar(s[i])]

-----------------------------------------------------------------------------
(* Numbers *)

CoordDigits == 5
ValueDigits == 3
CoordUnit == 10 ^ CoordDigits      \* one degree
ValueUnit == 10 ^ ValueDigits      \* 1.0

Abs(x) == IF x < 0 THEN -x ELSE x

\* a rounding that moves every value to the multiple above it
ToFixedAbove(x, d, digits) ==
    LET step == 10 ^ (digits - d)
    IN  ((x \div step) + 1) * step

\* Number(x.toFixed(d)) for x an integer in units of 10^-digits: round to the
\* nearest multiple of 10^(digits-d), halves away from zero.
ToFixed(x, d, digits) ==
    LET step == 10 ^ (digits - d)
        q == (Abs(x) + step \div 2) \div step
    IN  IF x < 0 THEN -(q * step) ELSE q * step

\* `${x.toFixed(4)}` of a coordinate: the decimal text, kept as one token
Fixed4Text(x) == ToString(ToFixed(x, 4, CoordDigits) \div 10 ^ (CoordDigits - 4))

-----------------------------------------------------------------------------
(* HttpError and its factory methods *)

HttpError(code, title, detail) ==
    [kind |-> "HttpError", code |-> code, title |-> title, detail |-> detail]

badRequest(detail) == HttpError(400, "Bad Request", detail)
unauthorized(detail) == HttpError(401, "Unauthorized", detail)
forbidden(detail) == HttpError(403, "Forbidden", detail)
notFound(detail) == HttpError(404, "Not Found", detail)
tooManyRequests(detail) == HttpError(429, "Too Many Requests", detail)
internalServerError(detail) == HttpError(500, "Internal Server Error", detail)

\* an error that is not an HttpError (a TypeError raised by the runtime)
TypeError(detail) ==
    [kind |-> "TypeError", code |-> 0, title |-> "TypeError", detail |-> detail]

\* the outcome of a call that may throw
Return(v) == [ok |-> TRUE, value |-> v]
Throw(e) == [ok |-> FALSE, error |-> e]

\* HttpError.sendError: res.status(code).json({errors: [{title, detail, code}]})
sendError(e) ==
    [sent |-> TRUE, status |-> e.code, title |-> e.title, detail |-> e.detail]

NoResponse == [sent |-> FALSE]

-----------------------------------------------------------------------------
(* Location Resolver *)

LAT_MAX == 90
LON_MAX == 180
MIN_CITY_LENGTH == 2

\* a JavaScript string is truthy iff it is defined and not empty
Truthy(o) == IsDefined(o) /\ Val(o) # <<>>

\* validateCoordinates with the upper latitude bound exclusive
validateCoordinatesExclusive(lat, lon) ==
    /\ lat >= -(LAT_MAX * CoordUnit)
    /\ lat < LAT_MAX * CoordUnit
    /\ lon >= -(LON_MAX * CoordUnit)
    /\ lon <= LON_MAX * CoordUnit

validateCoordinates(lat, lon) ==
    /\ lat >= -(LAT_MAX * CoordUnit)
    /\ lat <= LAT_MAX * CoordUnit
    /\ lon >= -(LON_MAX * CoordUnit)
    /\ lon <= LON_MAX * CoordUnit

\* validateLocationQuery measuring the city as given, without trim()
validateLocationQueryUntrimmed(location) ==
    IF IsDefined(location.lat) /\ IsDefined(location.lon)
    THEN IF ~validateCoordinates(Val(location.lat), Val(location.lon))
         THEN [isValid |-> FALSE,
               error |-> "Invalid coordinates: latitude must be -90 to 90, longitude must be -180 to 180"]
         ELSE [isValid |-> TRUE, error |-> ""]
    ELSE IF Truthy(location.city) /\ Len(Val(location.city)) > 0
         THEN IF Len(Val(location.city)) < MIN_CITY_LENGTH
              THEN [isValid |-> FALSE,
                    error |-> "City name must be at least 2 characters long"]
              ELSE [isValid |-> TRUE, error |-> ""]
         ELSE [isValid |-> FALSE,
               error |-> "Location must include either lat/lon coordinates or city name"]

validateLocationQuery(location) ==
    IF IsDefined(location.lat) /\ IsDefined(location.lon)
    THEN IF ~validateCoordinates(Val(location.lat), Val(location.lon))
         THEN [isValid |-> FALSE,
               error |-> "Invalid coordinates: latitude must be -90 to 90, longitude must be -180 to 180"]
         ELSE [isValid |-> TRUE, error |-> ""]
    ELSE IF Truthy(location.city) /\ Len(Trim(Val(location.city))) > 0
         THEN IF Len(Trim(Val(location.city))) < MIN_CITY_LENGTH
              THEN [isValid |-> FALSE,
                    error |-> "City name must be at least 2 characters long"]
              ELSE [isValid |-> TRUE, error |-> ""]
         ELSE [isValid |-> FALSE,
               error |-> "Location must include either lat/lon coordinates or city name"]

\* `${lat.toFixed(4)}, ${lon.toFixed(4)}`
CoordLabel(lat, lon) == <<Fixed4Text(lat), ",", " ", Fixed4Text(lon)>>

resolveLocation(query) ==
    LET validation == validateLocationQuery(query) IN
    IF ~validation.isValid
    THEN Throw(badRequest(IF validation.error # "" THEN validation.error
                          ELSE "Invalid location query"))
    ELSE IF IsDefined(query.lat) /\ IsDefined(query.lon)
    THEN IF ~validateCoordinates(Val(query.lat), Val(query.lon))
         THEN Throw(badRequest("Invalid coordinates"))
         ELSE Return([lat |-> query.lat,
                      lon |-> query.lon,
                      name |-> IF Truthy(query.city) THEN query.city
                               ELSE Some(CoordLabel(Val(query.lat), Val(query.lon))),
                      country |-> Undefined])
    ELSE IF Truthy(query.city)
    THEN Return([lat |-> Undefined, lon |-> Undefined, name |-> query.city,
                 country |-> Undefined])
    ELSE Throw(badRequest("Location must include coordinates or city name"))

-----------------------------------------------------------------------------
(* Upstream client: mock payloads and the live error mapping *)

MOCK_CITY_LAT == 320853       \* 32.0853, in units of 10^-4 degrees
MOCK_CITY_LON == 347818       \* 34.7818, in units of 10^-4 degrees
MOCK_BASE_TEMP == 20
MOCK_WEATHER_CODE == 1000

\* a literal x.yz of the source as a weather value
Centi(n) == (n * ValueUnit) \div 100

createMockRealtimeWeather(lat, lon, temperature) ==
    [data |->
        [time |-> "now",
         values |->
            [temperature |-> Some(temperature),
             humidity |-> Some(Centi(6000)),
             windSpeed |-> Some(Centi(500)),
             windDirection |-> Some(Centi(18000)),
             precipitationIntensity |-> Some(0),
             precipitationProbability |-> Some(Centi(1000)),
             visibility |-> Some(Centi(1500)),
             uvIndex |-> Some(Centi(500)),
             cloudCover |-> Some(Centi(3000)),
             pressureSurfaceLevel |-> Some(Centi(101325)),
             weatherCode |-> Some(MOCK_WEATHER_CODE)]],
     location |-> [lat |-> Some(lat), lon |-> Some(lon), name |-> Undefined,
                   country |-> Undefined]]

\* Math.random() is the digit rand / 10
getCityWeatherVariation(city, r) ==
    LET cityKey == ToLowerCase(city) IN
    IF \/ Includes(cityKey, <<"l", "o", "n", "d", "o", "n">>)
       \/ Includes(cityKey, <<"s", "e", "a", "t", "t", "l", "e">>)
       \/ Includes(cityKey, <<"m", "o", "s", "c", "o", "w">>)
       \/ Includes(cityKey, <<"a", "l", "a", "s", "k", "a">>)
       \/ Includes(cityKey, <<"d", "u", "b", "a", "i">>)
       \/ Includes(cityKey, <<"p", "h", "o", "e", "n", "i", "x">>)
       \/ Includes(cityKey, <<"m", "i", "a", "m", "i">>)
       \/ Includes(cityKey, <<"f", "l", "o", "r", "i", "d", "a">>)
    THEN MOCK_BASE_TEMP * ValueUnit
    ELSE MOCK_BASE_TEMP * ValueUnit + ((r - 5) * 2 * ValueUnit) \div 10

\* temperature = 20 + (lat / 90) * 15 + (Math.random() - 0.5) * 10
getMockRealtimeWeatherByCoordinates(lat, lon, r) ==
    createMockRealtimeWeather(lat, lon,
        MOCK_BASE_TEMP * ValueUnit
            + ((lat \div (CoordUnit \div ValueUnit)) * 15) \div 90
            + (r - 5) * ValueUnit)

getMockRealtimeWeatherByCity(city, r) ==
    createMockRealtimeWeather(MOCK_CITY_LAT * (CoordUnit \div 10 ^ 4),
                              MOCK_CITY_LON * (CoordUnit \div 10 ^ 4),
                              getCityWeatherVariation(city, r))

\* the payload the provider answers a successful call with: the shape the mock
\* copies (TomorrowRealtimeResponse)
ProviderPayload(location, r) ==
    IF IsDefined(location.lat) /\ IsDefined(location.lon)
    THEN getMockRealtimeWeatherByCoordinates(Val(location.lat), Val(location.lon), r)
    ELSE getMockRealtimeWeatherByCity(Val(location.name), r)

\* HTTP statuses a failed provider call may carry; NO_STATUS is a call without
\* a response (network error, timeout)
NO_STATUS == 0
HTTP_OK == 200
SERVER_ERROR_MIN == 500
UpstreamFailures == {NO_STATUS, 302, 400, 401, 403, 404, 429, 499, 500, 503, 599}

\* the interceptor taking 500 itself for a client-side failure
mapUpstreamErrorAbove500(status) ==
    CASE status = 401 -> unauthorized("Invalid Tomorrow.io API key")
      [] status = 403 -> forbidden("Tomorrow.io API access forbidden")
      [] status = 429 -> tooManyRequests("Tomorrow.io API rate limit exceeded")
      [] status = 404 -> notFound("Location not found")
      [] OTHER -> IF status # NO_STATUS /\ status > SERVER_ERROR_MIN
                  THEN internalServerError("Tomorrow.io API server error")
                  ELSE internalServerError("Failed to fetch weather data")

\* the response interceptor of createApiClient
mapUpstreamError(status) ==
    CASE status = 401 -> unauthorized("Invalid Tomorrow.io API key")
      [] status = 403 -> forbidden("Tomorrow.io API access forbidden")
      [] status = 429 -> tooManyRequests("Tomorrow.io API rate limit exceeded")
      [] status = 404 -> notFound("Location not found")
      [] OTHER -> IF status # NO_STATUS /\ status >= SERVER_ERROR_MIN
                  THEN internalServerError("Tomorrow.io API server error")
                  ELSE internalServerError("Failed to fetch weather data")

-----------------------------------------------------------------------------
(* Response Normalizer *)

WEATHER_CODES ==
    [c \in {0, 1000, 1100, 1101, 1102, 1001, 2000, 2100, 4000, 4001, 4200, 4201,
            5000, 5001, 5100, 5101, 6000, 6001, 6200, 6201, 7000, 7101, 7102, 8000} |->
        CASE c = 0 -> "Unknown"
          [] c = 1000 -> "Clear"
          [] c = 1100 -> "Mostly Clear"
          [] c = 1101 -> "Partly Cloudy"
          [] c = 1102 -> "Mostly Cloudy"
          [] c = 1001 -> "Cloudy"
          [] c = 2000 -> "Fog"
          [] c = 2100 -> "Light Fog"
          [] c = 4000 -> "Drizzle"
          [] c = 4001 -> "Rain"
          [] c = 4200 -> "Light Rain"
          [] c = 4201 -> "Heavy Rain"
          [] c = 5000 -> "Snow"
          [] c = 5001 -> "Flurries"
          [] c = 5100 -> "Light Snow"
          [] c = 5101 -> "Heavy Snow"
          [] c = 6000 -> "Freezing Drizzle"
          [] c = 6001 -> "Freezing Rain"
          [] c = 6200 -> "Light Freezing Rain"
          [] c = 6201 -> "Heavy Freezing Rain"
          [] c = 7000 -> "Ice Pellets"
          [] c = 7101 -> "Heavy Ice Pellets"
          [] c = 7102 -> "Light Ice Pellets"
          [] OTHER -> "Thunderstorm"]

\* the lookup without its default: a code that is not listed is described by
\* nothing
getWeatherDescriptionNoDefault(code) ==
    IF IsDefined(code) /\ Val(code) \in DOMAIN WEATHER_CODES
    THEN WEATHER_CODES[Val(code)]
    ELSE ""

\* WEATHER_CODES[code] || 'Unknown', code possibly undefined
getWeatherDescription(code) ==
    IF IsDefined(code) /\ Val(code) \in DOMAIN WEATHER_CODES
    THEN WEATHER_CODES[Val(code)]
    ELSE "Unknown"

\* x ?? d
OrElse(o, d) == IF IsDefined(o) THEN Val(o) ELSE d

\* normalizeLocationName; throws when there is neither a name nor a latitude
normalizeLocationName(location) ==
    IF Truthy(location.name)
    THEN Return(IF Truthy(location.country)
                THEN Val(location.name) \o <<",", " ">> \o Val(location.country)
                ELSE Val(location.name))
    ELSE IF IsDefined(location.lat) /\ IsDefined(location.lon)
         THEN Return(CoordLabel(Val(location.lat), Val(location.lon)))
         ELSE Throw(TypeError("Cannot read properties of undefined (reading 'toFixed')"))

sanitizeWeatherData(data) ==
    LET trimmed == IF IsDefined(data.location.name)
                   THEN Trim(Val(data.location.name)) ELSE <<>>
        label == IF trimmed # <<>> THEN Return(trimmed)
                 ELSE normalizeLocationName(data.location)
    IN  IF ~label.ok THEN label
        ELSE Return(
            [location |->
                [lat |-> Some(ToFixed(OrElse(data.location.lat, 0), 4, CoordDigits)),
                 lon |-> Some(ToFixed(OrElse(data.location.lon, 0), 4, CoordDigits)),
                 name |-> Some(label.value),
                 country |-> data.location.country],
             timestamp |-> data.timestamp,
             temperature |-> ToFixed(OrElse(data.temperature, 0), 1, ValueDigits),
             humidity |-> ToFixed(OrElse(data.humidity, 0), 1, ValueDigits),
             windSpeed |-> ToFixed(OrElse(data.windSpeed, 0), 1, ValueDigits),
             windDirection |-> ToFixed(OrElse(data.windDirection, 0), 0, ValueDigits),
             precipitation |->
                [intensity |-> ToFixed(OrElse(data.precipitation.intensity, 0), 2, ValueDigits),
                 probability |-> ToFixed(OrElse(data.precipitation.probability, 0), 0, ValueDigits)],
             visibility |-> ToFixed(OrElse(data.visibility, 0), 1, ValueDigits),
             uvIndex |-> ToFixed(OrElse(data.uvIndex, 0), 1, ValueDigits),
             cloudCover |-> ToFixed(OrElse(data.cloudCover, 0), 0, ValueDigits),
             pressure |-> ToFixed(OrElse(data.pressure, 0), 1, ValueDigits),
             weatherCode |-> data.weatherCode,
             description |-> getWeatherDescription(Some(OrElse(data.weatherCode, 1000)))])

transformRealtimeResponse(apiResponse) ==
    LET values == apiResponse.data.values IN
    sanitizeWeatherData(
        [location |-> apiResponse.location,
         timestamp |-> apiResponse.data.time,
         temperature |-> values.temperature,
         humidity |-> values.humidity,
         windSpeed |-> values.windSpeed,
         windDirection |-> values.windDirection,
         precipitation |-> [intensity |-> values.precipitationIntensity,
                            probability |-> values.precipitationProbability],
         visibility |-> values.visibility,
         uvIndex |-> values.uvIndex,
         cloudCover |-> values.cloudCover,
         pressure |-> values.pressureSurfaceLevel,
         weatherCode |-> values.weatherCode,
         description |-> getWeatherDescription(values.weatherCode)])

\* `${lat}, ${lon}` of two numbers
PlainLabel(lat, lon) == <<ToString(lat), ",", " ", ToString(lon)>>

transformToEssentialData(weatherData) ==
    [location |->
        [name |-> IF Truthy(weatherData.location.name)
                  THEN Val(weatherData.location.name)
                  ELSE PlainLabel(Val(weatherData.location.lat), Val(weatherData.location.lon)),
         lat |-> weatherData.location.lat,
         lon |-> weatherData.location.lon,
         country |-> weatherData.location.country],
     temperature |-> weatherData.temperature,
     windSpeed |-> weatherData.windSpeed,
     windDirection |-> weatherData.windDirection,
     precipitation |-> [intensity |-> weatherData.precipitation.intensity,
                        probability |-> weatherData.precipitation.probability],
     condition |-> weatherData.description,
     timestamp |-> weatherData.timestamp]

-----------------------------------------------------------------------------
(* Joi schemas and the validateJoi middleware *)

MAX_BATCH == 10
MIN_BATCH == 1

\* latSchema without its .max(90)
latSchemaOkNoMax(lat) == lat >= -(LAT_MAX * CoordUnit)

\* latSchema / lonSchema: Joi.number().min(-90).max(90), min(-180).max(180)
latSchemaOk(lat) == lat >= -(LAT_MAX * CoordUnit) /\ lat <= LAT_MAX * CoordUnit
lonSchemaOk(lon) == lon >= -(LON_MAX * CoordUnit) /\ lon <= LON_MAX * CoordUnit

\* citySchema: Joi.string().trim().min(1); Joi converts the value to its trimmed
\* form and rejects the empty string
citySchemaOk(city) == Len(Trim(city)) >= 1

\* locationSchema: the messages of the rules the value breaks
locationSchemaErrors(q) ==
    {"Latitude must be between -90 and 90" :
        x \in {v \in q.lat : ~latSchemaOk(v)}}
    \cup {"Longitude must be between -180 and 180" :
        x \in {v \in q.lon : ~lonSchemaOk(v)}}
    \cup {"City name cannot be empty" :
        x \in {v \in q.city : ~citySchemaOk(v)}}
    \cup (IF ~IsDefined(q.city) /\ ~IsDefined(q.lat)
          THEN {"Location must include either coordinates (lat/lon) or city name"}
          ELSE {})
    \cup (IF IsDefined(q.lat) # IsDefined(q.lon)
          THEN {"When providing coordinates, both lat and lon are required"}
          ELSE {})

\* the value Joi hands back for a valid location: the city trimmed
locationSchemaValue(q) ==
    [q EXCEPT !.city = IF IsDefined(q.city) THEN Some(Trim(Val(q.city))) ELSE Undefined]

\* getBatchWeatherBodySchema applied to body.locations (possibly missing)
batchSchemaErrors(locations) ==
    IF ~IsDefined(locations) THEN {"Locations array is required"}
    ELSE LET list == Val(locations) IN
         (IF Len(list) < MIN_BATCH THEN {"At least one location is required"} ELSE {})
         \cup (IF Len(list) > MAX_BATCH
               THEN {"Maximum 10 locations allowed per batch request"} ELSE {})
         \cup UNION {locationSchemaErrors(list[i]) : i \in 1..Len(list)}

\* validateJoi({body: getBatchWeatherBodySchema}): throws a 400 or replaces
\* req.body by the converted value
validateJoiBatch(locations) ==
    IF batchSchemaErrors(locations) # {}
    THEN Throw(badRequest("Validation failed"))
    ELSE Return(Some([i \in 1..Len(Val(locations)) |->
                        locationSchemaValue(Val(locations)[i])]))

\* setupGlobalErrorHandler: the response to an error passed to Express; an
\* error that is not an HttpError is answered with its own statusCode or
\* status when it has one (NODE_ENV is not production: the detail is the
\* message of the error)
globalErrorHandler(error) ==
    IF error.kind = "HttpError"
    THEN [sent |-> TRUE, status |-> error.code, title |-> error.title,
          detail |-> error.detail]
    ELSE [sent |-> TRUE, status |-> IF error.code # 0 THEN error.code ELSE 500,
          title |-> "Internal Server Error", detail |-> error.detail]

-----------------------------------------------------------------------------
(* Inputs *)

MaxCityLen == 3
MaxVaried == 2
RandSamples == {0, 9}

Paris == <<"P", "a", "r", "i", "s">>
London == <<"L", "o", "n", "d", "o", "n">>

RECURSIVE SeqsUpTo(_, _)
SeqsUpTo(S, n) ==
    IF n = 0 THEN {<<>>}
    ELSE LET shorter == SeqsUpTo(S, n - 1)
         IN  shorter \cup {Append(t, c) : t \in {u \in shorter : Len(u) = n - 1}, c \in S}

CitySamples == SeqsUpTo({" ", "a"}, MaxCityLen) \cup {Paris, London}

LatSamples == {-(LAT_MAX * CoordUnit) - 1, -(LAT_MAX * CoordUnit), 0,
               10 * CoordUnit + 4, LAT_MAX * CoordUnit, LAT_MAX * CoordUnit + 1,
               999 * CoordUnit}
LonSamples == {-(LON_MAX * CoordUnit) - 1, -(LON_MAX * CoordUnit), 0,
               LON_MAX * CoordUnit, LON_MAX * CoordUnit + 1}

Opt(S) == {Undefined} \cup {Some(v) : v \in S}

\* the LocationQuery values a single-location operation is tried on
LocationQueries == [lat : Opt(LatSamples), lon : Opt(LonSamples), city : Opt(CitySamples)]

Query(lat, lon, city) == [lat |-> lat, lon |-> lon, city |-> city]

ParisQuery == Query(Undefined, Undefined, Some(Paris))
BadCoordsQuery == Query(Some(999 * CoordUnit), Some(0), Undefined)
GoodCoordsQuery == Query(Some(10 * CoordUnit + 4), Some(0), Undefined)

\* the queries batches are built from
BatchQueries == {ParisQuery, BadCoordsQuery, GoodCoordsQuery}

\* a list of n queries alternating q1, q2
Alternating(n, q1, q2) == [i \in 1..n |-> IF i % 2 = 1 THEN q1 ELSE q2]

LongPatterns == {<<ParisQuery, GoodCoordsQuery>>, <<ParisQuery, BadCoordsQuery>>,
                 <<BadCoordsQuery, BadCoordsQuery>>}

\* the lists a batch operation is tried on: every list of up to MaxVaried
\* queries, and for each greater length up to one past the limit the
\* alternating lists; Undefined is a missing list
BatchInputs ==
    {Undefined}
    \cup {Some(l) : l \in SeqsUpTo(BatchQueries, MaxVaried)}
    \cup {Some(Alternating(n, p[1], p[2])) :
            n \in (MaxVaried + 1)..(MAX_BATCH + 1), p \in LongPatterns}

\* the request bodies POST /batch is tried on: the short lists, the lists one
\* past the limit, and the long lists that hold an entry the schema rejects
BodyInputs ==
    {l \in BatchInputs :
        \/ ~IsDefined(l)
        \/ Len(Val(l)) <= MaxVaried
        \/ Len(Val(l)) > MAX_BATCH
        \/ \E i \in 1..Len(Val(l)) : Val(l)[i] = BadCoordsQuery}

\* the statuses a failing provider call is tried with: all of them for a
\* single-location operation, two for a short batch, one for a long batch
FailureSamples(o, n) ==
    IF o \in {"realtime", "getRealtime", "getRealtimeAuth", "getForecast", "getHealth"}
    THEN UpstreamFailures
    ELSE IF n <= MaxVaried THEN {NO_STATUS, 404}
    ELSE {NO_STATUS}

-----------------------------------------------------------------------------
(* The weather service: getRealTimeWeatherData and getBatchWeather *)

NoResult == [ok |-> FALSE, error |-> [kind |-> "none", code |-> 0, title |-> "", detail |-> ""]]

\* the promise of a fetch: its state, the Location it resolved, the HTTP
\* status the provider answered its call with, the value or the reason
Rejected(e) ==
    [status |-> "rejected", location |-> Undefined, answer |-> Undefined,
     value |-> Undefined, reason |-> Some(e)]

\* getRealTimeWeatherData up to its await: the resolver runs synchronously, a
\* rejection by it settles the promise at once and no call is issued
startFetch(query) ==
    LET r == resolveLocation(query) IN
    IF ~r.ok THEN Rejected(r.error)
    ELSE IF (IsDefined(r.value.lat) /\ IsDefined(r.value.lon)) \/ Truthy(r.value.name)
         THEN [status |-> "awaiting", location |-> Some(r.value), answer |-> Undefined,
               value |-> Undefined, reason |-> Undefined]
         ELSE Rejected(badRequest("Invalid location data"))

\* getRealTimeWeatherData after its await: the payload is normalized
finishFetch(item, payload) ==
    LET t == transformRealtimeResponse(payload)
        answered == IF mode = "live" THEN Some(HTTP_OK) ELSE Undefined
    IN
    IF t.ok
    THEN [item EXCEPT !.status = "fulfilled", !.answer = answered,
                      !.value = Some(t.value)]
    ELSE [item EXCEPT !.status = "rejected", !.answer = answered,
                      !.reason = Some(t.error)]

failFetch(item, status) ==
    [item EXCEPT !.status = "rejected", !.answer = Some(status),
                 !.reason = Some(mapUpstreamError(status))]

Settled(item) == item.status # "awaiting"

NumAwaiting(items) == Cardinality({i \in 1..Len(items) : items[i].status = "awaiting"})

IsFulfilled(item) == item.status = "fulfilled"

\* batchResult collecting the successes last first
batchResultReversed(items) ==
    LET kept == SelectSeq(items, IsFulfilled)
    IN  [j \in 1..Len(kept) |->
            transformToEssentialData(Val(kept[Len(kept) + 1 - j].value))]

\* results.filter(fulfilled).map(value).map(transformToEssentialData)
batchResult(items) ==
    LET kept == SelectSeq(items, IsFulfilled)
    IN  [j \in 1..Len(kept) |-> transformToEssentialData(Val(kept[j].value))]

-----------------------------------------------------------------------------
(* The database module: connectDB, disconnectDB and the driver's events *)

\* a call or a driver event, and whether it completed without throwing
Did(kind, ok) == [kind |-> kind, ok |-> ok]

\* the module as loaded: let isConnected = false, nothing registered
DbInitial ==
    [isConnected |-> FALSE, readyState |-> 0, pending |-> "none", listeners |-> 0,
     connects |-> 0, disconnects |-> 0, last |-> Did("none", TRUE)]

\* the module after the connectDB of a startup that went through
DbConnected ==
    [isConnected |-> TRUE, readyState |-> 1, pending |-> "none", listeners |-> 1,
     connects |-> 1, disconnects |-> 0, last |-> Did("connectDB", TRUE)]

\* connectDB up to its await: returns at once when the flag is set, otherwise
\* issues DB.connect
connectDBStart(d) ==
    IF d.isConnected
    THEN [d EXCEPT !.last = Did("connectDB", TRUE)]
    ELSE [d EXCEPT !.pending = "connect", !.connects = @ + 1]

\* connectDB after its await: the flag is set and the listeners of the
\* connection and of SIGINT are registered, or the error is thrown again
connectDBSettle(d, ok) ==
    IF ok
    THEN [d EXCEPT !.pending = "none", !.isConnected = TRUE, !.readyState = 1,
                   !.listeners = @ + 1, !.last = Did("connectDB", TRUE)]
    ELSE [d EXCEPT !.pending = "none", !.last = Did("connectDB", FALSE)]

\* disconnectDB up to its await: issues DB.disconnect only when the flag is set
disconnectDBStart(d) ==
    IF d.isConnected
    THEN [d EXCEPT !.pending = "disconnect", !.disconnects = @ + 1]
    ELSE [d EXCEPT !.last = Did("disconnectDB", TRUE)]

\* disconnectDB after its await: the flag is cleared, or the error is thrown
\* again with the flag as it was
disconnectDBSettle(d, ok) ==
    IF ok
    THEN [d EXCEPT !.pending = "none", !.isConnected = FALSE, !.readyState = 0,
                   !.last = Did("disconnectDB", TRUE)]
    ELSE [d EXCEPT !.pending = "none", !.last = Did("disconnectDB", FALSE)]

\* the events of the connection the module listens to
DriverEvents == {"connected", "error", "disconnected", "reconnected"}

\* listeners that leave the flag alone on 'error'
onDriverEventIgnoringError(event, flag) ==
    IF event = "disconnected" THEN FALSE
    ELSE IF event = "reconnected" THEN TRUE
    ELSE flag

\* the listeners connectDB registers on the connection
onDriverEvent(event, flag) ==
    IF event \in {"error", "disconnected"} THEN FALSE
    ELSE IF event = "reconnected" THEN TRUE
    ELSE flag

\* the readyState of the connection after an event
readyStateAfter(event, readyState) ==
    IF event = "disconnected" THEN 0
    ELSE IF event \in {"connected", "reconnected"} THEN 1
    ELSE readyState

\* the driver emits an event: the listeners run if connectDB registered any;
\* 'connected' is not one of the events the flag follows
driverEvent(d, event) ==
    [d EXCEPT !.isConnected = IF d.listeners > 0 THEN onDriverEvent(event, @) ELSE @,
              !.readyState = readyStateAfter(event, @),
              !.last = IF event = "connected" THEN @ ELSE Did(event, TRUE)]

\* isConnectionActive
isConnectionActive(d) == d.isConnected /\ d.readyState = 1

\* the steps of StartServer, in the order of its statements
StartupOrder ==
    <<"connectDB", "express", "setupMiddleware", "setupRoutes", "setupErrorHandling",
      "startHttpServer">>

\* a step that ran, and whether it completed
Ran(step, ok) == [step |-> step, ok |-> ok]

\* the record of a startup that went through: every step, then the listen
\* callback
AllRan ==
    [i \in 1..Len(StartupOrder) |-> Ran(StartupOrder[i], TRUE)] \o <<Ran("listen", TRUE)>>

NoRequest ==
    [authorization |-> Undefined, queryToken |-> Undefined, cookieToken |-> Undefined,
     auth |-> Undefined, authToken |-> Undefined, authUser |-> Undefined,
     tokenType |-> Undefined]

Init ==
    /\ mode \in {"mock", "live"}
    /\ rand \in RandSamples
    /\ op = "none"
    /\ pc = "idle"
    /\ body = Undefined
    /\ batch = Undefined
    /\ fetch = <<>>
    /\ upstreamCalls = 0
    /\ mockCalls = 0
    /\ entered = {}
    /\ result = NoResult
    /\ response = NoResponse
    /\ req = NoRequest
    /\ res = NoResponse
    /\ nextCalls = 0
    /\ boot = "serving"
    /\ steps = AllRan
    /\ listening = TRUE
    /\ exitCode = Undefined
    /\ db = DbConnected

\* the client calling the provider whatever the mock switch says
IssueCallsIgnoringSwitch(items) ==
    /\ upstreamCalls' = upstreamCalls + NumAwaiting(items)
    /\ UNCHANGED mockCalls

\* the calls the synchronous part of the fetches issues
IssueCalls(items) ==
    /\ upstreamCalls' = upstreamCalls + (IF mode = "live" THEN NumAwaiting(items) ELSE 0)
    /\ mockCalls' = mockCalls + (IF mode = "mock" THEN NumAwaiting(items) ELSE 0)

\* a caller invokes getRealTimeWeatherData(query)
CallGetRealTimeWeatherData(query) ==
    /\ pc = "idle"
    /\ op' = "realtime"
    /\ batch' = Some(<<query>>)
    /\ fetch' = <<startFetch(query)>>
    /\ IssueCalls(fetch')
    /\ entered' = entered \cup {"getRealTimeWeatherData"}
    /\ pc' = "settling"
    /\ UNCHANGED <<mode, rand, body, result, response, authVars, serverVars>>

\* the size guard letting one more location through
tooManyOffByOne(n) == n > MAX_BATCH + 1

\* locationQueries.length > 10
tooMany(n) == n > MAX_BATCH

\* the body of getBatchWeather up to its await
EnterGetBatchWeather(locationQueries, after) ==
    /\ batch' = locationQueries
    /\ entered' = entered \cup {"getBatchWeather"}
    /\ IF ~IsDefined(locationQueries) \/ Len(Val(locationQueries)) = 0
       THEN /\ result' = Throw(badRequest("Locations array is required"))
            /\ pc' = after
            /\ UNCHANGED <<fetch, upstreamCalls, mockCalls>>
       ELSE IF tooMany(Len(Val(locationQueries)))
       THEN /\ result' = Throw(badRequest("Maximum 10 locations allowed"))
            /\ pc' = after
            /\ UNCHANGED <<fetch, upstreamCalls, mockCalls>>
       ELSE /\ fetch' = [i \in 1..Len(Val(locationQueries)) |->
                            startFetch(Val(locationQueries)[i])]
            /\ IssueCalls(fetch')
            /\ pc' = "settling"
            /\ UNCHANGED result

\* a caller invokes getBatchWeather(locationQueries)
CallGetBatchWeather(locationQueries) ==
    /\ pc = "idle"
    /\ op' = "batch"
    /\ EnterGetBatchWeather(locationQueries, "done")
    /\ UNCHANGED <<mode, rand, body, response, authVars, serverVars>>

\* the provider (or the mock) answers the call of position i with a payload
SettleFulfil(i) ==
    /\ pc = "settling"
    /\ i \in 1..Len(fetch)
    /\ fetch[i].status = "awaiting"
    /\ fetch' = [fetch EXCEPT ![i] =
                    finishFetch(fetch[i], ProviderPayload(Val(fetch[i].location), rand))]
    /\ UNCHANGED <<mode, rand, op, pc, body, batch, upstreamCalls, mockCalls, entered,
                   result, response, authVars, serverVars>>

\* a client that answers a failed call by issuing the call again
SettleRejectWithRetry(i, status) ==
    /\ pc = "settling"
    /\ mode = "live"
    /\ i \in 1..Len(fetch)
    /\ fetch[i].status = "awaiting"
    /\ status \in FailureSamples(op, Len(fetch))
    /\ upstreamCalls' = upstreamCalls + 1
    /\ UNCHANGED <<mode, rand, op, pc, body, batch, fetch, mockCalls, entered,
                   result, response, authVars, serverVars>>

\* the provider call of position i fails (live mode only)
SettleReject(i, status) ==
    /\ pc = "settling"
    /\ mode = "live"
    /\ i \in 1..Len(fetch)
    /\ fetch[i].status = "awaiting"
    /\ status \in FailureSamples(op, Len(fetch))
    /\ fetch' = [fetch EXCEPT ![i] = failFetch(fetch[i], status)]
    /\ UNCHANGED <<mode, rand, op, pc, body, batch, upstreamCalls, mockCalls, entered,
                   result, response, authVars, serverVars>>

\* the promise of getRealTimeWeatherData has settled: its caller resumes
RealtimeSettled ==
    /\ pc = "settling"
    /\ op = "realtime"
    /\ Settled(fetch[1])
    /\ result' = IF IsFulfilled(fetch[1]) THEN Return(Val(fetch[1].value))
                 ELSE Throw(Val(fetch[1].reason))
    /\ pc' = "done"
    /\ UNCHANGED <<mode, rand, op, body, batch, fetch, upstreamCalls, mockCalls, entered,
                   response, authVars, serverVars>>

\* the aggregation by Promise.all: getBatchWeather resumes at the first
\* rejection, with that rejection
BatchSettledAtFirstRejection ==
    /\ pc = "settling"
    /\ op \in {"batch", "postBatch"}
    /\ \/ \A i \in 1..Len(fetch) : Settled(fetch[i])
       \/ \E i \in 1..Len(fetch) : fetch[i].status = "rejected"
    /\ result' = IF \E i \in 1..Len(fetch) : fetch[i].status = "rejected"
                 THEN Throw(Val(fetch[CHOOSE i \in 1..Len(fetch) :
                                        fetch[i].status = "rejected"].reason))
                 ELSE Return(batchResult(fetch))
    /\ pc' = IF op = "batch" THEN "done" ELSE "respond"
    /\ UNCHANGED <<mode, rand, op, body, batch, fetch, upstreamCalls, mockCalls, entered,
                   response, authVars, serverVars>>

\* Promise.allSettled resolves once every fetch has settled: getBatchWeather
\* returns the successes
BatchSettled ==
    /\ pc = "settling"
    /\ op \in {"batch", "postBatch"}
    /\ \A i \in 1..Len(fetch) : Settled(fetch[i])
    /\ result' = Return(batchResult(fetch))
    /\ pc' = IF op = "batch" THEN "done" ELSE "respond"
    /\ UNCHANGED <<mode, rand, op, body, batch, fetch, upstreamCalls, mockCalls, entered,
                   response, authVars, serverVars>>

-----------------------------------------------------------------------------
(* POST /weather/batch *)

\* res.json({success: true, data, total, message})
jsonOk(data) == [sent |-> TRUE, status |-> 200, data |-> data, total |-> Len(data)]

\* the request reaches validateJoi({body: getBatchWeatherBodySchema}); a
\* validation error is thrown to Express and answered by the global error
\* handler, otherwise the handler runs with the converted body and calls
\* getBatchWeather
PostBatch(locations) ==
    /\ pc = "idle"
    /\ op' = "postBatch"
    /\ body' = locations
    /\ LET v == validateJoiBatch(locations) IN
       IF ~v.ok
       THEN /\ response' = globalErrorHandler(v.error)
            /\ pc' = "done"
            /\ UNCHANGED <<batch, fetch, upstreamCalls, mockCalls, entered, result>>
       ELSE /\ EnterGetBatchWeather(v.value, "respond")
            /\ UNCHANGED response
    /\ UNCHANGED <<mode, rand, authVars, serverVars>>

\* the handler resumes after getBatchWeather: it answers 200 with the list, or
\* renders the error it caught
PostBatchRespond ==
    /\ pc = "respond"
    /\ op = "postBatch"
    /\ response' = IF result.ok THEN jsonOk(result.value)
                   ELSE IF result.error.kind = "HttpError" THEN sendError(result.error)
                   ELSE sendError(internalServerError("Failed to fetch batch weather data"))
    /\ pc' = "done"
    /\ UNCHANGED <<mode, rand, op, body, batch, fetch, upstreamCalls, mockCalls, entered,
                   result, authVars, serverVars>>

-----------------------------------------------------------------------------
(* Specifications of the weather operations *)

NextRealtime ==
    \/ \E q \in LocationQueries : CallGetRealTimeWeatherData(q)
    \/ \E i \in 1..Len(fetch) : SettleFulfil(i)
    \/ \E i \in 1..Len(fetch), s \in FailureSamples(op, Len(fetch)) : SettleReject(i, s)
    \/ RealtimeSettled

SpecRealtime == Init /\ [][NextRealtime]_vars

NextBatch ==
    \/ \E l \in BatchInputs : CallGetBatchWeather(l)
    \/ \E l \in BodyInputs : PostBatch(l)
    \/ \E i \in 1..Len(fetch) : SettleFulfil(i)
    \/ \E i \in 1..Len(fetch), s \in FailureSamples(op, Len(fetch)) : SettleReject(i, s)
    \/ BatchSettled
    \/ PostBatchRespond

SpecBatch == Init /\ [][NextBatch]_vars

-----------------------------------------------------------------------------
(* Tokens.  A token string is described by what jsonwebtoken makes of it:      *)
(* form "empty" is the string '', "blank" a string of white space, "garbage"   *)
(* a string that is not a JWT, and "jwt" a well-formed JWT, signed with the    *)
(* configured secret or with another one, carrying the given claims.           *)

Now == 10      \* Math.floor(Date.now() / 1000)

Token(form, secret, claims) == [form |-> form, secret |-> secret, claims |-> claims]

NoClaims == [exp |-> Undefined, nbf |-> Undefined, tokenType |-> Undefined]

EmptyToken == Token("empty", "none", NoClaims)
BlankToken == Token("blank", "none", NoClaims)
GarbageToken == Token("garbage", "none", NoClaims)

ClaimSamples ==
    [exp : Opt({Now - 1, Now, Now + 1}), nbf : Opt({Now - 1, Now + 1}),
     tokenType : Opt({"access", "refresh"})]

JwtSamples == {Token("jwt", sec, c) : sec \in {"configured", "other"}, c \in ClaimSamples}

TokenSamples == {EmptyToken, BlankToken, GarbageToken} \cup JwtSamples

\* String.prototype.trim on a token string
TrimToken(t) == IF t.form = "blank" THEN EmptyToken ELSE t

\* a token string is truthy iff it is not ''
TokenTruthy(o) == IsDefined(o) /\ Val(o).form # "empty"

\* jwt.verify(token, ENV.JWT.SECRET) of jsonwebtoken: the payload, or the name
\* of the error thrown; the signature is checked first, then nbf, then exp
jwtVerify(token) ==
    IF token.form # "jwt" THEN Throw("JsonWebTokenError")
    ELSE IF token.secret # "configured" THEN Throw("JsonWebTokenError")
    ELSE IF IsDefined(token.claims.nbf) /\ Val(token.claims.nbf) > Now
    THEN Throw("NotBeforeError")
    ELSE IF IsDefined(token.claims.exp) /\ Now >= Val(token.claims.exp)
    THEN Throw("TokenExpiredError")
    ELSE Return(token.claims)

\* jwt.decode(token): the payload without any verification, or null
jwtDecode(token) == IF token.form = "jwt" THEN Some(token.claims) ELSE Undefined

validateToken(token) ==
    IF TrimToken(token).form = "empty"
    THEN Throw(unauthorized("Token is required"))
    ELSE LET v == jwtVerify(token) IN
         IF v.ok THEN v
         ELSE IF v.error = "TokenExpiredError"
              THEN Throw(unauthorized("Token has expired"))
         ELSE IF v.error = "JsonWebTokenError"
              THEN Throw(unauthorized("Malformed token"))
         ELSE IF v.error = "NotBeforeError"
              THEN Throw(unauthorized("Token not active yet"))
         ELSE Throw(unauthorized("Invalid token"))

\* validateAccessToken without its tokenType check
validateAccessTokenAnyType(token) == validateToken(token)

validateAccessToken(token) ==
    LET decoded == validateToken(token) IN
    IF ~decoded.ok THEN decoded
    ELSE IF decoded.value.tokenType # Some("access")
         THEN Throw(unauthorized("Invalid token type - access token required"))
         ELSE decoded

validateRefreshToken(token) ==
    LET decoded == validateToken(token) IN
    IF ~decoded.ok THEN decoded
    ELSE IF decoded.value.tokenType # Some("refresh")
         THEN Throw(unauthorized("Invalid token type - refresh token required"))
         ELSE decoded

\* extractToken: the Bearer token of an Authorization header value, or null
extractToken(authHeader) ==
    IF authHeader.scheme # "Bearer" THEN Undefined
    ELSE LET token == TrimToken(authHeader.credentials) IN
         IF token.form # "empty" THEN Some(token) ELSE Undefined

isTokenExpired(token) ==
    LET decoded == jwtDecode(token) IN
    IF ~IsDefined(decoded) \/ ~IsDefined(Val(decoded).exp) \/ Val(Val(decoded).exp) = 0
    THEN TRUE
    ELSE Val(Val(decoded).exp) < Now

\* an Authorization header value is truthy iff it is not ''
HeaderTruthy(o) == IsDefined(o) /\ Val(o).scheme # ""

\* the extraction trying the cookie before the query parameter
extractTokenFromRequestCookieFirst(r) ==
    IF HeaderTruthy(r.authorization) /\ IsDefined(extractToken(Val(r.authorization)))
    THEN extractToken(Val(r.authorization))
    ELSE IF TokenTruthy(r.cookieToken) THEN r.cookieToken
    ELSE IF TokenTruthy(r.queryToken) THEN r.queryToken
    ELSE Undefined

extractTokenFromRequest(r) ==
    IF HeaderTruthy(r.authorization) /\ IsDefined(extractToken(Val(r.authorization)))
    THEN extractToken(Val(r.authorization))
    ELSE IF TokenTruthy(r.queryToken) THEN r.queryToken
    ELSE IF TokenTruthy(r.cookieToken) THEN r.cookieToken
    ELSE Undefined

-----------------------------------------------------------------------------
(* Auth Gate middlewares.  Each returns the request as it leaves it, the      *)
(* response it sent (if any) and the number of times it called next().        *)

Outcome(r, response_, next) == [req |-> r, res |-> response_, next |-> next]

\* requireAuth forgetting to attach the raw token
requireAuthDroppingToken(r) ==
    LET token == extractTokenFromRequest(r) IN
    IF ~TokenTruthy(token)
    THEN Outcome(r, sendError(unauthorized("Authentication token required")), 0)
    ELSE LET decoded == validateToken(Val(token)) IN
         IF decoded.ok
         THEN Outcome([r EXCEPT !.auth = Some(decoded.value)], NoResponse, 1)
         ELSE Outcome(r, sendError(decoded.error), 0)

\* requireAuth without its own check of a missing token: validateToken
\* reports it
requireAuthUnchecked(r) ==
    LET token == extractTokenFromRequest(r) IN
    IF ~TokenTruthy(token)
    THEN Outcome(r, sendError(unauthorized("Token is required")), 0)
    ELSE LET decoded == validateToken(Val(token)) IN
         IF decoded.ok
         THEN Outcome([r EXCEPT !.auth = Some(decoded.value), !.authToken = token],
                      NoResponse, 1)
         ELSE Outcome(r, sendError(decoded.error), 0)

\* the simple variant
requireAuth(r) ==
    LET token == extractTokenFromRequest(r) IN
    IF ~TokenTruthy(token)
    THEN Outcome(r, sendError(unauthorized("Authentication token required")), 0)
    ELSE LET decoded == validateToken(Val(token)) IN
         IF decoded.ok
         THEN Outcome([r EXCEPT !.auth = Some(decoded.value), !.authToken = token],
                      NoResponse, 1)
         ELSE Outcome(r, sendError(decoded.error), 0)

\* optionalAuth answering a token that fails validation instead of passing on
optionalAuthStrict(r) ==
    LET token == extractTokenFromRequest(r) IN
    IF TokenTruthy(token) /\ ~isTokenExpired(Val(token))
    THEN LET decoded == validateToken(Val(token)) IN
         IF decoded.ok
         THEN Outcome([r EXCEPT !.auth = Some(decoded.value), !.authToken = token],
                      NoResponse, 1)
         ELSE Outcome(r, sendError(decoded.error), 0)
    ELSE Outcome(r, NoResponse, 1)

optionalAuth(r) ==
    LET token == extractTokenFromRequest(r) IN
    IF TokenTruthy(token) /\ ~isTokenExpired(Val(token))
    THEN LET decoded == validateToken(Val(token)) IN
         IF decoded.ok
         THEN Outcome([r EXCEPT !.auth = Some(decoded.value), !.authToken = token],
                      NoResponse, 1)
         ELSE Outcome(r, NoResponse, 1)
    ELSE Outcome(r, NoResponse, 1)

\* the token-type variant
requireAccessToken(r) ==
    LET token == extractTokenFromRequest(r) IN
    IF ~TokenTruthy(token)
    THEN Outcome(r, sendError(unauthorized("Access token required")), 0)
    ELSE LET decoded == validateAccessToken(Val(token)) IN
         IF decoded.ok
         THEN Outcome([r EXCEPT !.authUser = Some(decoded.value), !.authToken = token,
                                !.tokenType = Some("access")],
                      NoResponse, 1)
         ELSE Outcome(r, sendError(decoded.error), 0)

requireRefreshToken(r) ==
    LET token == extractTokenFromRequest(r) IN
    IF ~TokenTruthy(token)
    THEN Outcome(r, sendError(unauthorized("Refresh token required")), 0)
    ELSE LET decoded == validateRefreshToken(Val(token)) IN
         IF decoded.ok
         THEN Outcome([r EXCEPT !.authUser = Some(decoded.value), !.authToken = token,
                                !.tokenType = Some("refresh")],
                      NoResponse, 1)
         ELSE Outcome(r, sendError(decoded.error), 0)

optionalAccessToken(r) ==
    LET token == extractTokenFromRequest(r) IN
    IF TokenTruthy(token) /\ ~isTokenExpired(Val(token))
    THEN LET decoded == validateAccessToken(Val(token)) IN
         IF decoded.ok
         THEN Outcome([r EXCEPT !.authUser = Some(decoded.value), !.authToken = token,
                                !.tokenType = Some("access")],
                      NoResponse, 1)
         ELSE Outcome(r, NoResponse, 1)
    ELSE Outcome(r, NoResponse, 1)

\* the deprecated requireAuth of the token-type variant
requireAuthLegacy(r) ==
    LET token == extractTokenFromRequest(r) IN
    IF ~TokenTruthy(token)
    THEN Outcome(r, sendError(unauthorized("Authentication token required")), 0)
    ELSE IF isTokenExpired(Val(token))
    THEN Outcome(r, sendError(unauthorized("Token has expired")), 0)
    ELSE LET asAccess == validateAccessToken(Val(token))
             asRefresh == validateRefreshToken(Val(token))
         IN  IF asAccess.ok
             THEN Outcome([r EXCEPT !.tokenType = Some("access"),
                                    !.authUser = Some(asAccess.value), !.authToken = token],
                          NoResponse, 1)
             ELSE IF asRefresh.ok
             THEN Outcome([r EXCEPT !.tokenType = Some("refresh"),
                                    !.authUser = Some(asRefresh.value), !.authToken = token],
                          NoResponse, 1)
             ELSE Outcome(r, sendError(asRefresh.error), 0)

Middlewares == {"requireAuth", "optionalAuth", "requireAccessToken", "requireRefreshToken",
                "optionalAccessToken", "requireAuthLegacy"}

RunMiddleware(name, r) ==
    CASE name = "requireAuth" -> requireAuth(r)
      [] name = "optionalAuth" -> optionalAuth(r)
      [] name = "requireAccessToken" -> requireAccessToken(r)
      [] name = "requireRefreshToken" -> requireRefreshToken(r)
      [] name = "optionalAccessToken" -> optionalAccessToken(r)
      [] OTHER -> requireAuthLegacy(r)

\* the tokens requests that carry several of them are built from
FewTokens == {EmptyToken, GarbageToken,
              Token("jwt", "configured",
                    [exp |-> Some(Now + 1), nbf |-> Undefined, tokenType |-> Some("access")]),
              Token("jwt", "configured",
                    [exp |-> Some(Now - 1), nbf |-> Undefined, tokenType |-> Undefined])}

Header(scheme, credentials) == [scheme |-> scheme, credentials |-> credentials]

Request(authorization, queryToken, cookieToken) ==
    [NoRequest EXCEPT !.authorization = authorization, !.queryToken = queryToken,
                      !.cookieToken = cookieToken]

\* the requests the Auth Gate is tried on: every token sample in each single
\* place, and every combination of a few tokens over the three places
RequestSamples ==
    {Request(Some(Header("Bearer", t)), Undefined, Undefined) : t \in TokenSamples}
    \cup {Request(Undefined, Some(t), Undefined) : t \in TokenSamples}
    \cup {Request(Undefined, Undefined, Some(t)) : t \in TokenSamples}
    \cup {Request(h, q, c) :
            h \in {Undefined, Some(Header("", EmptyToken)), Some(Header("Basic", GarbageToken))}
                  \cup {Some(Header("Bearer", t)) : t \in FewTokens \cup {BlankToken}},
            q \in Opt(FewTokens), c \in Opt(FewTokens)}

\* a request reaches the middleware, which runs to completion
Authenticate(name, r) ==
    /\ pc = "idle"
    /\ op' = name
    /\ LET out == RunMiddleware(name, r) IN
       /\ req' = out.req
       /\ res' = out.res
       /\ nextCalls' = nextCalls + out.next
    /\ pc' = "done"
    /\ entered' = entered \cup {name}
    /\ UNCHANGED <<mode, rand, body, batch, fetch, upstreamCalls, mockCalls, result,
                   response, serverVars>>

\* the request as it arrived: the middleware changes at most the attached fields
Arrived(r) ==
    [r EXCEPT !.auth = Undefined, !.authToken = Undefined, !.authUser = Undefined,
              !.tokenType = Undefined]

NextAuth == \E name \in Middlewares, r \in RequestSamples : Authenticate(name, r)

SpecAuth == Init /\ [][NextAuth]_vars

-----------------------------------------------------------------------------
(* GET /weather/realtime and getWeatherWithFormat *)

\* formatSchema: Joi.string().valid('full', 'compact').default('full')
formatSchemaOk(format) == format \in {"full", "compact"}

\* getRealtimeWeatherQuerySchema: the messages of the rules the query breaks
realtimeQuerySchemaErrors(q, format) ==
    locationSchemaErrors(q)
    \cup {"format must be one of [full, compact]" :
            x \in {f \in format : ~formatSchemaOk(f)}}

\* validateJoi({query: getRealtimeWeatherQuerySchema}): throws a 400 or
\* replaces req.query by the converted value, format defaulted
validateJoiRealtimeQuery(q, format) ==
    IF realtimeQuerySchemaErrors(q, format) # {}
    THEN Throw(badRequest("Validation failed"))
    ELSE Return([query |-> locationSchemaValue(q), format |-> OrElse(format, "full")])

\* getWeatherWithFormat after its await: the compact or the essential view
formatWeather(weatherData, format) ==
    IF format = "compact"
    THEN [location |-> IF Truthy(weatherData.location.name)
                       THEN Val(weatherData.location.name)
                       ELSE PlainLabel(Val(weatherData.location.lat),
                                       Val(weatherData.location.lon)),
          temperature |-> weatherData.temperature,
          windSpeed |-> weatherData.windSpeed,
          precipitation |-> weatherData.precipitation.intensity,
          timestamp |-> weatherData.timestamp]
    ELSE transformToEssentialData(weatherData)

\* res.json({success: true, data, message})
jsonData(data) == [sent |-> TRUE, status |-> 200, data |-> data]

\* the catch block of a route handler
renderCaught(error, fallback) ==
    IF error.kind = "HttpError" THEN sendError(error)
    ELSE sendError(internalServerError(fallback))

\* GET /realtime reaches validateJoi, then the handler up to its await
GetRealtime(q, format) ==
    /\ pc = "idle"
    /\ op' = "getRealtime"
    /\ body' = Some([query |-> q, format |-> format])
    /\ LET v == validateJoiRealtimeQuery(q, format) IN
       IF ~v.ok
       THEN /\ response' = globalErrorHandler(v.error)
            /\ pc' = "done"
            /\ UNCHANGED <<batch, fetch, upstreamCalls, mockCalls, entered, result>>
       ELSE /\ batch' = Some(<<v.value.query>>)
            /\ fetch' = <<startFetch(v.value.query)>>
            /\ IssueCalls(fetch')
            /\ entered' = entered \cup {"getWeatherWithFormat", "getRealTimeWeatherData"}
            /\ pc' = "settling"
            /\ UNCHANGED <<result, response>>
    /\ UNCHANGED <<mode, rand, authVars, serverVars>>

\* the handler of GET /realtime resumes: getWeatherWithFormat returns the
\* formatted data or throws, and the handler answers
GetRealtimeRespond ==
    /\ pc = "settling"
    /\ op \in {"getRealtime", "getRealtimeAuth"}
    /\ Settled(fetch[1])
    /\ LET format == validateJoiRealtimeQuery(Val(body).query, Val(body).format).value.format
           outcome == IF IsFulfilled(fetch[1])
                      THEN Return(formatWeather(Val(fetch[1].value), format))
                      ELSE Throw(Val(fetch[1].reason))
       IN  /\ result' = outcome
           /\ response' = IF outcome.ok THEN jsonData(outcome.value)
                          ELSE renderCaught(outcome.error, "Failed to fetch weather data")
    /\ pc' = "done"
    /\ UNCHANGED <<mode, rand, op, body, batch, fetch, upstreamCalls, mockCalls, entered,
                   authVars, serverVars>>

-----------------------------------------------------------------------------
(* GET /weather/realtime behind the Auth Gate: the middlewares            *)
(* [validateJoi({query}), requireAuth] run before the handler                *)

\* a handler that runs whatever the middleware before it did
handlerRunsAlways(out) == TRUE

\* Express runs the handler after a middleware iff the middleware called next
handlerRuns(out) == out.next = 1

\* validateJoi replaces req.query by the validated value with the keys the
\* schema does not list removed (stripUnknown): the token query parameter is
\* gone when requireAuth reads the request
stripUnknownQuery(r) == [r EXCEPT !.queryToken = Undefined]

\* the request reaches validateJoi, then requireAuth, then the handler up to
\* its await
GetRealtimeAuth(q, format, r) ==
    /\ pc = "idle"
    /\ op' = "getRealtimeAuth"
    /\ body' = Some([query |-> q, format |-> format])
    /\ LET v == validateJoiRealtimeQuery(q, format)
           out == requireAuth(stripUnknownQuery(r))
       IN
       IF ~v.ok
       THEN /\ response' = globalErrorHandler(v.error)
            /\ pc' = "done"
            /\ req' = r
            /\ UNCHANGED <<batch, fetch, upstreamCalls, mockCalls, entered, result,
                           res, nextCalls>>
       ELSE /\ req' = out.req
            /\ res' = out.res
            /\ nextCalls' = nextCalls + out.next
            /\ IF ~handlerRuns(out)
               THEN /\ response' = out.res
                    /\ pc' = "done"
                    /\ entered' = entered \cup {"requireAuth"}
                    /\ UNCHANGED <<batch, fetch, upstreamCalls, mockCalls, result>>
               ELSE /\ batch' = Some(<<v.value.query>>)
                    /\ fetch' = <<startFetch(v.value.query)>>
                    /\ IssueCalls(fetch')
                    /\ entered' = entered \cup {"requireAuth", "getWeatherWithFormat",
                                                "getRealTimeWeatherData"}
                    /\ pc' = "settling"
                    /\ UNCHANGED <<result, response>>
    /\ UNCHANGED <<mode, rand, serverVars>>

-----------------------------------------------------------------------------
(* Forecast: the payloads, transformForecastResponse, getWeatherForecastData *)
(* and GET /weather/forecast.  A timelines value is described by its array    *)
(* elements (items) and by its named keys (hourly, daily): the provider sends  *)
(* an array, which has no named keys; an object with named keys has no         *)
(* element 0.                                                                   *)

HOURLY_COUNT == 24
DAILY_COUNT == 7

\* timestepsSchema: Joi.string().valid('1h', '1d').default('1h')
timestepsSchemaOk(timesteps) == timesteps \in {"1h", "1d"}

intervalCount(timesteps) == IF timesteps = "1h" THEN HOURLY_COUNT ELSE DAILY_COUNT

\* a literal x.y of the source as a weather value
Deci(n) == (n * ValueUnit) \div 10

\* Math.round(x * 10) / 10 of a weather value
RoundDeci(x) == ToFixed(x, 1, ValueDigits)

\* the values of interval i (from 0) of the hourly mock forecast; the sine
\* terms of humidity and uvIndex are left at their midpoints
mockHourlyValues(i, r) ==
    [temperature |-> Some(RoundDeci(MOCK_BASE_TEMP * ValueUnit + Deci(2 * r) - ValueUnit)),
     humidity |-> Some(50 * ValueUnit),
     windSpeed |-> Some(RoundDeci(3 * ValueUnit + Deci(4 * r))),
     windDirection |-> Some(((180 + i * 15) % 360) * ValueUnit),
     precipitationIntensity |-> Undefined,
     precipitationProbability |->
        Some(IF r > 8 THEN (8 * r + 20) * ValueUnit ELSE (2 * r) * ValueUnit),
     visibility |-> Some(RoundDeci(12 * ValueUnit + Deci(6 * r))),
     uvIndex |-> Some(7 * ValueUnit),
     cloudCover |-> Some((8 * r) * ValueUnit),
     pressureSurfaceLevel |-> Undefined,
     weatherCode |-> Some(IF r > 8 THEN 4000 ELSE MOCK_WEATHER_CODE)]

\* the daily mock forecast carries temperatureMax, humidityAvg, ... and none
\* of the fields the normalizer reads
mockDailyValues ==
    [temperature |-> Undefined, humidity |-> Undefined, windSpeed |-> Undefined,
     windDirection |-> Undefined, precipitationIntensity |-> Undefined,
     precipitationProbability |-> Undefined, visibility |-> Undefined,
     uvIndex |-> Undefined, cloudCover |-> Undefined,
     pressureSurfaceLevel |-> Undefined, weatherCode |-> Undefined]

\* `Mock Location ${lat.toFixed(2)}, ${lon.toFixed(2)}`
MockLocationName(lat, lon) ==
    <<"Mock Location ", ToString(ToFixed(lat, 2, CoordDigits) \div 10 ^ (CoordDigits - 2)),
      ",", " ", ToString(ToFixed(lon, 2, CoordDigits) \div 10 ^ (CoordDigits - 2))>>

\* interval i starts i steps after now; the mock names that instant `time`
createMockForecast(lat, lon, timesteps, r) ==
    LET intervals ==
            [k \in 1..intervalCount(timesteps) |->
                [startTime |-> Undefined,
                 time |-> Some(k - 1),
                 values |-> IF timesteps = "1h" THEN mockHourlyValues(k - 1, r)
                            ELSE mockDailyValues]]
    IN  [timelines |->
            [items |-> <<>>,
             hourly |-> IF timesteps = "1h" THEN Some(intervals) ELSE Undefined,
             daily |-> IF timesteps = "1h" THEN Undefined ELSE Some(intervals)],
         location |-> [lat |-> Some(lat), lon |-> Some(lon),
                       name |-> Some(MockLocationName(lat, lon)),
                       country |-> Undefined]]

getMockForecastByCoordinates(lat, lon, timesteps, r) ==
    createMockForecast(lat, lon, timesteps, r)

getMockForecastByCity(city, timesteps, r) ==
    LET mockData == createMockForecast(MOCK_CITY_LAT * (CoordUnit \div 10 ^ 4),
                                       MOCK_CITY_LON * (CoordUnit \div 10 ^ 4),
                                       timesteps, r)
    IN  [mockData EXCEPT !.location.name = Some(city)]

\* a payload of the provider (TomorrowForecastResponse): one timeline of n
\* intervals, each with a startTime and every value
liveForecastPayload(location, timesteps, n, r) ==
    [timelines |->
        [items |->
            <<[timestep |-> timesteps,
               intervals |->
                  [k \in 1..n |->
                      [startTime |-> Some(k - 1),
                       time |-> Undefined,
                       values |->
                          [mockHourlyValues(k - 1, r) EXCEPT
                              !.precipitationIntensity = Some(0),
                              !.pressureSurfaceLevel = Some(Centi(101325))]]]]>>,
         hourly |-> Undefined,
         daily |-> Undefined],
     location |-> [lat |-> location.lat, lon |-> location.lon, name |-> Undefined,
                   country |-> Undefined]]

\* getWeatherForecastByCoordinates / getWeatherForecastByCity
ForecastPayload(location, timesteps, n, r) ==
    IF mode = "live" THEN liveForecastPayload(location, timesteps, n, r)
    ELSE IF IsDefined(location.lat) /\ IsDefined(location.lon)
    THEN getMockForecastByCoordinates(Val(location.lat), Val(location.lon), timesteps, r)
    ELSE getMockForecastByCity(Val(location.name), timesteps, r)

\* timelines[0]
At0(timelines) ==
    IF Len(timelines.items) >= 1 THEN Some(timelines.items[1]) ELSE Undefined

-----------------------------------------------------------------------------
(* The forecast normalizer, getWeatherForecastData and GET /weather/forecast *)

\* transformForecastResponse; reading timestep of an undefined timeline throws
transformForecastResponse(apiResponse, location) ==
    LET timeline == At0(apiResponse.timelines) IN
    IF ~IsDefined(timeline)
    THEN Throw(TypeError("Cannot read properties of undefined (reading 'timestep')"))
    ELSE Return(
        [location |-> location,
         timestep |-> Val(timeline).timestep,
         intervals |->
            [k \in 1..Len(Val(timeline).intervals) |->
                LET interval == Val(timeline).intervals[k] IN
                [time |-> interval.startTime,
                 temperature |-> interval.values.temperature,
                 humidity |-> interval.values.humidity,
                 windSpeed |-> interval.values.windSpeed,
                 windDirection |-> interval.values.windDirection,
                 precipitation |->
                    [intensity |-> interval.values.precipitationIntensity,
                     probability |-> interval.values.precipitationProbability],
                 visibility |-> interval.values.visibility,
                 uvIndex |-> interval.values.uvIndex,
                 cloudCover |-> interval.values.cloudCover,
                 pressure |-> interval.values.pressureSurfaceLevel,
                 weatherCode |-> interval.values.weatherCode,
                 description |-> getWeatherDescription(interval.values.weatherCode)]]])

\* a || b of two optional coordinates: 0 is falsy
OrCoordinate(a, b) == IF IsDefined(a) /\ Val(a) # 0 THEN a ELSE b

\* getWeatherForecastData collecting the intervals last first
finishForecastReversed(apiResponse, location) ==
    LET t == transformForecastResponse(apiResponse, location) IN
    IF ~t.ok THEN t
    ELSE LET forecastData == t.value
             n == Len(forecastData.intervals) IN
         Return(
            [location |-> forecastData.location,
             timestep |-> forecastData.timestep,
             intervals |->
                [k \in 1..n |->
                    LET interval == forecastData.intervals[n + 1 - k] IN
                    [time |-> interval.time,
                     temperature |-> interval.temperature,
                     windSpeed |-> interval.windSpeed,
                     windDirection |-> interval.windDirection,
                     precipitation |-> interval.precipitation,
                     condition |-> interval.description]]])

\* getWeatherForecastData after its await
finishForecast(apiResponse, location) ==
    LET t == transformForecastResponse(apiResponse, location) IN
    IF ~t.ok THEN t
    ELSE LET forecastData == t.value IN
         Return(
            [location |->
                [name |-> IF Truthy(forecastData.location.name)
                          THEN forecastData.location.name ELSE location.name,
                 lat |-> OrCoordinate(forecastData.location.lat, location.lat),
                 lon |-> OrCoordinate(forecastData.location.lon, location.lon),
                 country |-> forecastData.location.country],
             timestep |-> forecastData.timestep,
             intervals |->
                [k \in 1..Len(forecastData.intervals) |->
                    LET interval == forecastData.intervals[k] IN
                    [time |-> interval.time,
                     temperature |-> interval.temperature,
                     windSpeed |-> interval.windSpeed,
                     windDirection |-> interval.windDirection,
                     precipitation |-> interval.precipitation,
                     condition |-> interval.description]]])

\* getWeatherForecastQuerySchema: the messages of the rules the query breaks
forecastQuerySchemaErrors(q, timesteps) ==
    locationSchemaErrors(q)
    \cup {"timesteps must be one of [1h, 1d]" :
            x \in {t \in timesteps : ~timestepsSchemaOk(t)}}

validateJoiForecastQuery(q, timesteps) ==
    IF forecastQuerySchemaErrors(q, timesteps) # {}
    THEN Throw(badRequest("Validation failed"))
    ELSE Return([query |-> locationSchemaValue(q), timesteps |-> OrElse(timesteps, "1h")])

\* GET /forecast reaches validateJoi, then the handler and
\* getWeatherForecastData up to its await; a rejection by the resolver is
\* caught by the handler at once
GetForecast(q, timesteps) ==
    /\ pc = "idle"
    /\ op' = "getForecast"
    /\ body' = Some([query |-> q, timesteps |-> timesteps])
    /\ LET v == validateJoiForecastQuery(q, timesteps) IN
       IF ~v.ok
       THEN /\ response' = globalErrorHandler(v.error)
            /\ pc' = "done"
            /\ UNCHANGED <<batch, fetch, upstreamCalls, mockCalls, entered, result>>
       ELSE /\ batch' = Some(<<v.value.query>>)
            /\ fetch' = <<startFetch(v.value.query)>>
            /\ IssueCalls(fetch')
            /\ entered' = entered \cup {"getWeatherForecastData"}
            /\ IF Settled(fetch'[1])
               THEN /\ result' = Throw(Val(fetch'[1].reason))
                    /\ response' = renderCaught(Val(fetch'[1].reason),
                                                "Failed to fetch weather forecast")
                    /\ pc' = "done"
               ELSE /\ pc' = "forecasting"
                    /\ UNCHANGED <<result, response>>
    /\ UNCHANGED <<mode, rand, authVars, serverVars>>

\* the forecast call is answered with a payload (of n intervals when it is the
\* provider's): getWeatherForecastData normalizes it and the handler answers
ForecastAnswered(n) ==
    /\ pc = "forecasting"
    /\ LET location == Val(fetch[1].location)
           timesteps == validateJoiForecastQuery(Val(body).query,
                                                 Val(body).timesteps).value.timesteps
           outcome == finishForecast(ForecastPayload(location, timesteps, n, rand),
                                     location)
       IN  /\ result' = outcome
           /\ fetch' = <<[fetch[1] EXCEPT
                            !.status = IF outcome.ok THEN "fulfilled" ELSE "rejected",
                            !.answer = IF mode = "live" THEN Some(HTTP_OK) ELSE Undefined,
                            !.reason = IF outcome.ok THEN Undefined
                                       ELSE Some(outcome.error)]>>
           /\ response' = IF outcome.ok THEN jsonData(outcome.value)
                          ELSE renderCaught(outcome.error,
                                            "Failed to fetch weather forecast")
    /\ pc' = "done"
    /\ UNCHANGED <<mode, rand, op, body, batch, upstreamCalls, mockCalls, entered,
                   authVars, serverVars>>

\* the forecast call fails (live mode only)
ForecastFailed(status) ==
    /\ pc = "forecasting"
    /\ mode = "live"
    /\ fetch' = <<failFetch(fetch[1], status)>>
    /\ result' = Throw(mapUpstreamError(status))
    /\ response' = renderCaught(mapUpstreamError(status),
                                "Failed to fetch weather forecast")
    /\ pc' = "done"
    /\ UNCHANGED <<mode, rand, op, body, batch, upstreamCalls, mockCalls, entered,
                   authVars, serverVars>>

-----------------------------------------------------------------------------
(* Health: checkApiHealth, getServiceHealth and GET /weather/health *)

getMockApiHealth == [status |-> "healthy"]

\* checkApiHealth reporting healthy whatever the probe was answered
checkApiHealthAlwaysHealthy(answer) == [status |-> "healthy"]

\* checkApiHealth, given the HTTP status its probe call was answered with
\* (no probe is made in mock mode): the catch turns every failure of the
\* probe into unhealthy
checkApiHealth(answer) ==
    IF mode = "mock" THEN getMockApiHealth
    ELSE IF answer = Some(HTTP_OK) THEN [status |-> "healthy"]
    ELSE [status |-> "unhealthy"]

getServiceHealth(apiHealth) ==
    [status |-> IF apiHealth.status = "healthy" THEN "healthy" ELSE "unhealthy",
     services |-> [tomorrowApi |-> apiHealth]]

\* res.status(health.status === 'healthy' ? 200 : 503).json(health)
healthResponse(health) ==
    [sent |-> TRUE, status |-> IF health.status = "healthy" THEN HTTP_OK ELSE 503,
     health |-> health]

\* the request of the probe: location '0,0'
ProbeLocation == [lat |-> Some(0), lon |-> Some(0), name |-> Undefined, country |-> Undefined]

\* GET /health: in mock mode checkApiHealth returns the mock health and the
\* handler answers; in live mode it issues the probe call and awaits it
GetHealth ==
    /\ pc = "idle"
    /\ op' = "getHealth"
    /\ body' = Undefined
    /\ batch' = Undefined
    /\ entered' = entered \cup {"getServiceHealth", "checkApiHealth"}
    /\ IF mode = "mock"
       THEN /\ mockCalls' = mockCalls + 1
            /\ fetch' = <<>>
            /\ result' = Return(getServiceHealth(checkApiHealth(Undefined)))
            /\ response' = healthResponse(result'.value)
            /\ pc' = "done"
            /\ UNCHANGED upstreamCalls
       ELSE /\ upstreamCalls' = upstreamCalls + 1
            /\ fetch' = <<[status |-> "awaiting", location |-> Some(ProbeLocation),
                           answer |-> Undefined, value |-> Undefined,
                           reason |-> Undefined]>>
            /\ pc' = "probing"
            /\ UNCHANGED <<mockCalls, result, response>>
    /\ UNCHANGED <<mode, rand, authVars, serverVars>>

\* the probe call is answered with an HTTP status, or fails without one:
\* checkApiHealth returns, getServiceHealth returns and the handler answers
HealthProbeAnswered(status) ==
    /\ pc = "probing"
    /\ fetch' = <<[fetch[1] EXCEPT
                    !.status = IF status = HTTP_OK THEN "fulfilled" ELSE "rejected",
                    !.answer = Some(status),
                    !.reason = IF status = HTTP_OK THEN Undefined
                               ELSE Some(mapUpstreamError(status))]>>
    /\ result' = Return(getServiceHealth(checkApiHealth(Some(status))))
    /\ response' = healthResponse(result'.value)
    /\ pc' = "done"
    /\ UNCHANGED <<mode, rand, op, body, batch, upstreamCalls, mockCalls, entered,
                   authVars, serverVars>>

-----------------------------------------------------------------------------
(* The gateway: requests one after another on the routes of /weather *)

\* the error express.json() passes to Express for a body that is not JSON: not
\* an HttpError, and it carries status 400 (code holds statusCode || status of
\* an error that is not an HttpError, 0 when it has neither)
BodyParseError ==
    [kind |-> "SyntaxError", code |-> 400, title |-> "SyntaxError",
     detail |-> "Unexpected end of JSON input"]

\* POST /batch with a body that is not JSON: express.json() fails before the
\* route is reached and the global error handler answers
PostMalformedBody ==
    /\ pc = "idle"
    /\ op' = "postMalformed"
    /\ body' = Undefined
    /\ result' = Throw(BodyParseError)
    /\ response' = globalErrorHandler(BodyParseError)
    /\ pc' = "done"
    /\ UNCHANGED <<mode, rand, batch, fetch, upstreamCalls, mockCalls, entered, authVars, serverVars>>

MaxCalls == 3

\* the response has been sent and the next request arrives: nothing of the
\* finished request is kept, the calls made so far stay made
NextRequest ==
    /\ pc = "done"
    /\ upstreamCalls + mockCalls < MaxCalls
    /\ op' = "none"
    /\ pc' = "idle"
    /\ body' = Undefined
    /\ batch' = Undefined
    /\ fetch' = <<>>
    /\ entered' = {}
    /\ result' = NoResult
    /\ response' = NoResponse
    /\ req' = NoRequest
    /\ res' = NoResponse
    /\ nextCalls' = 0
    /\ UNCHANGED <<mode, rand, upstreamCalls, mockCalls, serverVars>>

LondonQuery == Query(Undefined, Undefined, Some(London))
LoneLatQuery == Query(Some(0), Undefined, Some(London))
EmptyQuery == Query(Undefined, Undefined, Undefined)

\* the query strings the GET routes are tried on
GatewayQueries == {LondonQuery, GoodCoordsQuery, BadCoordsQuery, LoneLatQuery, EmptyQuery}
FormatSamples == Opt({"full", "compact", "xml"})
TimestepSamples == Opt({"1h", "1d", "1w"})

\* the bodies POST /batch is tried on
GatewayBodies == {Some(l) : l \in SeqsUpTo(BatchQueries, MaxVaried)}

\* the numbers of intervals a provider timeline is tried with
IntervalCounts == {0, 1, DAILY_COUNT, HOURLY_COUNT}

\* the tokens and the requests the gated route is tried on
GoodToken ==
    Token("jwt", "configured",
          [exp |-> Some(Now + 1), nbf |-> Undefined, tokenType |-> Some("access")])
ExpiredToken ==
    Token("jwt", "configured",
          [exp |-> Some(Now - 1), nbf |-> Undefined, tokenType |-> Some("access")])
GatedRequests ==
    {Request(Undefined, Undefined, Undefined),
     Request(Some(Header("Bearer", GoodToken)), Undefined, Undefined),
     Request(Some(Header("Bearer", GarbageToken)), Undefined, Some(GoodToken)),
     Request(Some(Header("Bearer", ExpiredToken)), Undefined, Undefined),
     Request(Undefined, Some(GoodToken), Undefined),
     Request(Undefined, Some(GarbageToken), Some(GoodToken)),
     Request(Undefined, Undefined, Some(GoodToken))}

NextGateway ==
    \/ \E q \in GatewayQueries, f \in FormatSamples : GetRealtime(q, f)
    \/ \E q \in GatewayQueries, f \in FormatSamples, r \in GatedRequests :
            GetRealtimeAuth(q, f, r)
    \/ GetRealtimeRespond
    \/ \E q \in GatewayQueries, t \in TimestepSamples : GetForecast(q, t)
    \/ \E n \in IntervalCounts : ForecastAnswered(n)
    \/ \E s \in UpstreamFailures : ForecastFailed(s)
    \/ GetHealth
    \/ \E s \in {HTTP_OK} \cup UpstreamFailures : HealthProbeAnswered(s)
    \/ \E l \in GatewayBodies : PostBatch(l)
    \/ PostMalformedBody
    \/ \E i \in 1..Len(fetch) : SettleFulfil(i)
    \/ \E i \in 1..Len(fetch), s \in FailureSamples(op, Len(fetch)) : SettleReject(i, s)
    \/ BatchSettled
    \/ PostBatchRespond
    \/ NextRequest

SpecGateway == Init /\ [][NextGateway]_vars

-----------------------------------------------------------------------------
(* Startup: StartServer, connectDB and startHttpServer *)

\* the statement after a step of StartServer; after startHttpServer returns,
\* the outcome of server.listen is awaited
StepAfter(step) ==
    LET i == CHOOSE k \in 1..Len(StartupOrder) : StartupOrder[k] = step
    IN  IF i < Len(StartupOrder) THEN StartupOrder[i + 1] ELSE "listen"

\* a catch block that logs the failure of a step and goes on with the next
catchStartupFailureAndGoOn(step) == [boot |-> StepAfter(step), exitCode |-> Undefined]

\* the catch block of StartServer: process.exit(1)
catchStartupFailure(step) == [boot |-> "exited", exitCode |-> Some(1)]

\* the codes of the 'error' event of server.listen
ListenErrors == {"EACCES", "EADDRINUSE", "EADDRNOTAVAIL"}

\* the 'error' handler of the server for a listen error: process.exit(1) for
\* EACCES and EADDRINUSE; any other code is thrown again, out of the event
\* handler, and the uncaughtException handler exits with 1
onListenError(code) ==
    IF code \in {"EACCES", "EADDRINUSE"}
    THEN [boot |-> "exited", exitCode |-> Some(1), by |-> "error handler"]
    ELSE [boot |-> "exited", exitCode |-> Some(1), by |-> "uncaughtException"]

\* the process has been launched: StartServer is about to run
InitStartup ==
    /\ mode \in {"mock", "live"}
    /\ rand \in RandSamples
    /\ op = "none"
    /\ pc = "idle"
    /\ body = Undefined
    /\ batch = Undefined
    /\ fetch = <<>>
    /\ upstreamCalls = 0
    /\ mockCalls = 0
    /\ entered = {}
    /\ result = NoResult
    /\ response = NoResponse
    /\ req = NoRequest
    /\ res = NoResponse
    /\ nextCalls = 0
    /\ boot = StartupOrder[1]
    /\ steps = <<>>
    /\ listening = FALSE
    /\ exitCode = Undefined
    /\ db = DbInitial

\* the next step of StartServer runs: it completes, or it throws (connectDB
\* rejects) and the catch block of StartServer runs
StartupStep(ok) ==
    /\ \E k \in 1..Len(StartupOrder) : StartupOrder[k] = boot
    /\ steps' = Append(steps, Ran(boot, ok))
    /\ IF ok
       THEN /\ boot' = StepAfter(boot)
            /\ UNCHANGED exitCode
       ELSE /\ boot' = catchStartupFailure(boot).boot
            /\ exitCode' = catchStartupFailure(boot).exitCode
    /\ db' = IF boot = "connectDB" THEN connectDBSettle(connectDBStart(db), ok) ELSE db
    /\ UNCHANGED <<mode, rand, op, pc, weatherVars, authVars, listening>>

\* the callback of server.listen runs: the server is listening
ListenOk ==
    /\ boot = "listen"
    /\ steps' = Append(steps, Ran("listen", TRUE))
    /\ listening' = TRUE
    /\ boot' = "serving"
    /\ UNCHANGED <<mode, rand, op, pc, weatherVars, authVars, exitCode, db>>

\* server.listen fails: the 'error' event of the server
ListenError(code) ==
    /\ boot = "listen"
    /\ steps' = Append(steps, Ran("listen", FALSE))
    /\ boot' = onListenError(code).boot
    /\ exitCode' = onListenError(code).exitCode
    /\ UNCHANGED <<mode, rand, op, pc, weatherVars, authVars, listening, db>>

Signals == {"SIGTERM", "SIGINT"}

\* the listeners of a signal in the order StartServer registered them: the one
\* of connectDB (SIGINT only), the one of setupProcessErrorHandlers, the one of
\* setupGracefulShutdown
SignalListeners(signal) ==
    (IF signal = "SIGINT" THEN <<"connectDB">> ELSE <<>>)
    \o <<"setupProcessErrorHandlers", "setupGracefulShutdown">>

\* one listener runs, up to its first await:
\*   connectDB: await disconnectDB(), process.exit(0) only after the await;
\*   setupProcessErrorHandlers: process.exit(0);
\*   setupGracefulShutdown: server.close(callback) and the 10 s timer
runListener(name, process) ==
    IF name = "connectDB"
    THEN [process EXCEPT !.db = disconnectDBStart(@)]
    ELSE IF name = "setupProcessErrorHandlers"
    THEN [process EXCEPT !.exitCode = Some(0)]
    ELSE [process EXCEPT !.closing = TRUE]

\* process.emit(signal): the listeners run one after the other, synchronously;
\* process.exit ends the process and the listeners after it never run
RECURSIVE emit(_, _)
emit(names, process) ==
    IF names = <<>> \/ IsDefined(process.exitCode) THEN process
    ELSE emit(Tail(names), runListener(Head(names), process))

\* the started process receives SIGTERM or SIGINT
Signal(signal) ==
    /\ boot = "serving"
    /\ exitCode = Undefined
    /\ LET after == emit(SignalListeners(signal),
                        [db |-> db, exitCode |-> Undefined, closing |-> FALSE])
       IN  /\ db' = after.db
           /\ exitCode' = after.exitCode
           /\ boot' = IF IsDefined(after.exitCode) THEN "exited"
                      ELSE IF after.closing THEN "closing" ELSE boot
    /\ op' = signal
    /\ UNCHANGED <<mode, rand, pc, weatherVars, authVars, steps, listening>>

\* once the server listens it serves the requests of the gateway
NextStartup ==
    \/ \E ok \in BOOLEAN : StartupStep(ok)
    \/ ListenOk
    \/ \E code \in ListenErrors : ListenError(code)
    \/ \E signal \in Signals : Signal(signal)
    \/ (listening /\ exitCode = Undefined /\ NextGateway)

SpecStartup == InitStartup /\ [][NextStartup]_vars

-----------------------------------------------------------------------------
(* The pure functions of the normalizer, applied to sampled inputs *)

\* the table of getWeatherDescription in services/weatherService.ts
descriptions ==
    [c \in {0, 1000, 1100, 1101, 1102, 1001, 2000, 2100, 4000, 4001, 4200, 4201,
            5000, 5001, 5100, 5101, 6000, 6001, 6200, 6201, 7000, 7101, 7102, 8000} |->
        CASE c = 0 -> "Unknown"
          [] c = 1000 -> "Clear"
          [] c = 1100 -> "Mostly Clear"
          [] c = 1101 -> "Partly Cloudy"
          [] c = 1102 -> "Mostly Cloudy"
          [] c = 1001 -> "Cloudy"
          [] c = 2000 -> "Fog"
          [] c = 2100 -> "Light Fog"
          [] c = 4000 -> "Drizzle"
          [] c = 4001 -> "Rain"
          [] c = 4200 -> "Light Rain"
          [] c = 4201 -> "Heavy Rain"
          [] c = 5000 -> "Snow"
          [] c = 5001 -> "Flurries"
          [] c = 5100 -> "Light Snow"
          [] c = 5101 -> "Heavy Snow"
          [] c = 6000 -> "Freezing Drizzle"
          [] c = 6001 -> "Freezing Rain"
          [] c = 6200 -> "Light Freezing Rain"
          [] c = 6201 -> "Heavy Freezing Rain"
          [] c = 7000 -> "Ice Pellets"
          [] c = 7101 -> "Heavy Ice Pellets"
          [] c = 7102 -> "Light Ice Pellets"
          [] OTHER -> "Thunderstorm"]

\* getWeatherDescription of services/weatherService.ts: descriptions[code] || 'Unknown'
legacyGetWeatherDescription(code) ==
    IF code \in DOMAIN descriptions /\ descriptions[code] # ""
    THEN descriptions[code]
    ELSE "Unknown"

CodeSpan == 20

\* the codes the lookups are tried on: the integers around zero, every listed
\* code and its two neighbours
CodeSamples ==
    (-CodeSpan..CodeSpan)
    \cup UNION {{c - 1, c, c + 1} : c \in DOMAIN WEATHER_CODES}
    \cup {-1000, -8000}

\* the weather values sanitizeWeatherData is tried on, in units of
\* 10^-ValueDigits: with digits beyond the two kept, halves, negatives
MilliSamples == {0, 4, 5, 49, 50, 444, 445, 500, 1234, 1250, 20449, 20450, 99999}
ValueSamples == {(m * ValueUnit) \div 1000 : m \in MilliSamples}
                \cup {-((m * ValueUnit) \div 1000) : m \in MilliSamples}

\* the coordinates sanitizeWeatherData is tried on, with a fifth decimal
SanitizeCoords == {0, 10 * CoordUnit + (4 * CoordUnit) \div 100000,
                   10 * CoordUnit + (5 * CoordUnit) \div 100000,
                   -(10 * CoordUnit + (5 * CoordUnit) \div 100000),
                   LAT_MAX * CoordUnit}

NameSamples == {Undefined, Some(<<>>), Some(<<" ">>), Some(<<" ", "a", " ">>), Some(Paris)}

\* a WeatherData whose numeric fields derive from v (all undefined when v is)
WeatherDataOf(v, lat, lon, name) ==
    LET plus(k) == IF IsDefined(v) THEN Some(Val(v) + k * (ValueUnit \div 1000))
                   ELSE Undefined
        minus == IF IsDefined(v) THEN Some(-Val(v)) ELSE Undefined
    IN  [location |-> [lat |-> lat, lon |-> lon, name |-> name, country |-> Undefined],
         timestamp |-> 0,
         temperature |-> v,
         humidity |-> plus(1),
         windSpeed |-> plus(50),
         windDirection |-> plus(500),
         precipitation |-> [intensity |-> plus(5), probability |-> minus],
         visibility |-> minus,
         uvIndex |-> plus(49),
         cloudCover |-> plus(499),
         pressure |-> plus(51),
         weatherCode |-> IF IsDefined(v) THEN Some(MOCK_WEATHER_CODE) ELSE Undefined,
         description |-> "Clear"]

WeatherDataSamples ==
    {WeatherDataOf(v, lat, lon, name) :
        v \in Opt(ValueSamples), lat \in Opt(SanitizeCoords),
        lon \in Opt({0, LON_MAX * CoordUnit}), name \in NameSamples}

\* a value sanitizeWeatherData returned, passed as a WeatherData: its numeric
\* fields are all defined
AsWeatherData(w) ==
    [w EXCEPT !.temperature = Some(w.temperature),
              !.humidity = Some(w.humidity),
              !.windSpeed = Some(w.windSpeed),
              !.windDirection = Some(w.windDirection),
              !.precipitation = [intensity |-> Some(w.precipitation.intensity),
                                 probability |-> Some(w.precipitation.probability)],
              !.visibility = Some(w.visibility),
              !.uvIndex = Some(w.uvIndex),
              !.cloudCover = Some(w.cloudCover),
              !.pressure = Some(w.pressure)]

\* the realtime payloads the normalizer is tried on: the payload of the mock
\* with each sampled weatherCode or without one, with or without a name
PayloadSamples ==
    {[createMockRealtimeWeather(lat, 0, MOCK_BASE_TEMP * ValueUnit) EXCEPT
        !.data.values.weatherCode = c, !.location.name = name] :
        lat \in {0, 10 * CoordUnit}, c \in Opt(CodeSamples),
        name \in {Undefined, Some(Paris)}}

\* the longest timeline the forecast normalizer is tried on
MaxIntervals == 3

\* the Location the forecast is asked for
ForecastLocation == resolveLocation(GoodCoordsQuery).value

\* the forecast payloads the normalizer is tried on: the intervals of a
\* timeline of the provider in every order, with repetitions and omissions
ForecastSamples ==
    LET full == liveForecastPayload(ForecastLocation, "1h", MaxIntervals, 0) IN
    {[full EXCEPT !.timelines.items[1].intervals =
            [k \in 1..Len(pick) |-> full.timelines.items[1].intervals[pick[k]]]] :
        pick \in SeqsUpTo(1..MaxIntervals, MaxIntervals)}

\* a && b of two optional numbers as a condition: undefined and 0 are falsy
BothTruthy(a, b) == IsDefined(a) /\ Val(a) # 0 /\ IsDefined(b) /\ Val(b) # 0

\* fetchWeatherData of the legacy service (with an API key configured) up to
\* its first request: the realtime request for the coordinates given, the
\* geocoding request for the city, or the error thrown
fetchWeatherData(location) ==
    IF BothTruthy(location.lat, location.lng)
    THEN Return([request |-> "realtime", lat |-> Val(location.lat),
                 lng |-> Val(location.lng)])
    ELSE IF Truthy(location.city)
    THEN Return([request |-> "geocode", query |-> Val(location.city)])
    ELSE Throw(badRequest("Location must include lat/lng or city name"))

\* the queries the legacy service is tried on
LegacyQueries ==
    [lat : Opt({0, 10 * CoordUnit}), lng : Opt({0, 10 * CoordUnit}),
     city : {Undefined, Some(Paris)}]

\* the input of a call of one of the functions has been chosen
InitNormalizer ==
    /\ mode = "mock"
    /\ rand \in RandSamples
    /\ op = "none"
    /\ pc = "idle"
    /\ body \in {Some([code |-> c]) : c \in CodeSamples}
                \cup {Some([data |-> d]) : d \in WeatherDataSamples}
                \cup {Some([payload |-> p]) : p \in PayloadSamples}
                \cup {Some([forecast |-> p]) : p \in ForecastSamples}
                \cup {Some([legacy |-> q]) : q \in LegacyQueries}
    /\ batch = Undefined
    /\ fetch = <<>>
    /\ upstreamCalls = 0
    /\ mockCalls = 0
    /\ entered = {}
    /\ result = NoResult
    /\ response = NoResponse
    /\ req = NoRequest
    /\ res = NoResponse
    /\ nextCalls = 0
    /\ boot = "serving"
    /\ steps = AllRan
    /\ listening = TRUE
    /\ exitCode = Undefined
    /\ db = DbConnected

IsCodeInput == "code" \in DOMAIN Val(body)
IsDataInput == "data" \in DOMAIN Val(body)
IsPayloadInput == "payload" \in DOMAIN Val(body)
IsForecastInput == "forecast" \in DOMAIN Val(body)
IsLegacyInput == "legacy" \in DOMAIN Val(body)

\* getWeatherDescription(code) of utils/weather is called
CallGetWeatherDescription ==
    /\ pc = "idle"
    /\ IsCodeInput
    /\ op' = "getWeatherDescription"
    /\ result' = Return(getWeatherDescription(Some(Val(body).code)))
    /\ pc' = "done"
    /\ UNCHANGED <<mode, rand, body, batch, fetch, upstreamCalls, mockCalls, entered,
                   response, authVars, serverVars>>

\* getWeatherDescription(code) of services/weatherService is called
CallLegacyGetWeatherDescription ==
    /\ pc = "idle"
    /\ IsCodeInput
    /\ op' = "legacyGetWeatherDescription"
    /\ result' = Return(legacyGetWeatherDescription(Val(body).code))
    /\ pc' = "done"
    /\ UNCHANGED <<mode, rand, body, batch, fetch, upstreamCalls, mockCalls, entered,
                   response, authVars, serverVars>>

\* sanitizeWeatherData(data) is called
CallSanitizeWeatherData ==
    /\ pc = "idle"
    /\ IsDataInput
    /\ op' = "sanitizeWeatherData"
    /\ result' = sanitizeWeatherData(Val(body).data)
    /\ pc' = "done"
    /\ UNCHANGED <<mode, rand, body, batch, fetch, upstreamCalls, mockCalls, entered,
                   response, authVars, serverVars>>

\* sanitizeWeatherData is called on the value it returned
CallSanitizeAgain ==
    /\ pc = "done"
    /\ op = "sanitizeWeatherData"
    /\ result.ok
    /\ op' = "sanitizeAgain"
    /\ result' = sanitizeWeatherData(AsWeatherData(result.value))
    /\ UNCHANGED <<mode, rand, pc, body, batch, fetch, upstreamCalls, mockCalls, entered,
                   response, authVars, serverVars>>

\* transformRealtimeResponse(apiResponse) is called
CallTransformRealtimeResponse ==
    /\ pc = "idle"
    /\ IsPayloadInput
    /\ op' = "transformRealtimeResponse"
    /\ result' = transformRealtimeResponse(Val(body).payload)
    /\ pc' = "done"
    /\ UNCHANGED <<mode, rand, body, batch, fetch, upstreamCalls, mockCalls, entered,
                   response, authVars, serverVars>>

\* getWeatherForecastData normalizes the payload the provider answered with
CallFinishForecast ==
    /\ pc = "idle"
    /\ IsForecastInput
    /\ op' = "getWeatherForecastData"
    /\ result' = finishForecast(Val(body).forecast, ForecastLocation)
    /\ pc' = "done"
    /\ UNCHANGED <<mode, rand, body, batch, fetch, upstreamCalls, mockCalls, entered,
                   response, authVars, serverVars>>

\* fetchWeatherData of the legacy service is called
CallFetchWeatherData ==
    /\ pc = "idle"
    /\ IsLegacyInput
    /\ op' = "fetchWeatherData"
    /\ result' = fetchWeatherData(Val(body).legacy)
    /\ pc' = "done"
    /\ UNCHANGED <<mode, rand, body, batch, fetch, upstreamCalls, mockCalls, entered,
                   response, authVars, serverVars>>

NextNormalizer ==
    \/ CallGetWeatherDescription
    \/ CallLegacyGetWeatherDescription
    \/ CallSanitizeWeatherData
    \/ CallSanitizeAgain
    \/ CallTransformRealtimeResponse
    \/ CallFinishForecast
    \/ CallFetchWeatherData

SpecNormalizer == InitNormalizer /\ [][NextNormalizer]_vars

-----------------------------------------------------------------------------
(* Properties of the batch aggregator and of POST /batch, under SpecBatch *)

NoCalls == upstreamCalls = 0 /\ mockCalls = 0

BadRequestThrown(r) == ~r.ok /\ r.error.kind = "HttpError" /\ r.error.code = 400

FulfilledPositions == {i \in 1..Len(fetch) : fetch[i].status = "fulfilled"}

\* the j-th input position whose fetch succeeded
NthFulfilled(j) ==
    CHOOSE i \in FulfilledPositions :
        Cardinality({k \in FulfilledPositions : k < i}) = j - 1

\* C1: when getBatchWeather was given 1 to 10 locations and every fetch has
\* settled, it returns (it does not throw) exactly one item per fetch that
\* succeeded, and the j-th item is the essential data of the j-th successful
\* input position; with no success the list is empty.
C1_BatchKeepsSuccessesInOrder ==
    (op = "batch" /\ pc = "done" /\ IsDefined(batch)
        /\ Len(Val(batch)) >= 1 /\ Len(Val(batch)) <= MAX_BATCH) =>
      /\ result.ok
      /\ Len(fetch) = Len(Val(batch))
      /\ Len(result.value) = Cardinality(FulfilledPositions)
      /\ \A j \in 1..Len(result.value) :
            LET i == NthFulfilled(j)
                q == Val(batch)[i]
            IN  /\ result.value[j] = transformToEssentialData(Val(fetch[i].value))
                /\ IsDefined(q.lat) =>
                      result.value[j].location.lat
                          = Some(ToFixed(Val(q.lat), 4, CoordDigits))

\* a full batch whose first fetch failed and whose second succeeded, answered
\* with some but not all of its locations
C1_Witness ==
    /\ op = "batch" /\ pc = "done" /\ IsDefined(batch)
    /\ Len(Val(batch)) = MAX_BATCH
    /\ result.ok
    /\ fetch[1].status = "rejected"
    /\ fetch[2].status = "fulfilled"
    /\ Len(result.value) >= 2
    /\ Len(result.value) < MAX_BATCH

\* a missing list, an empty list, or more than 10 locations
BadSize(l) == ~IsDefined(l) \/ Len(Val(l)) = 0 \/ Len(Val(l)) > MAX_BATCH

\* C2: getBatchWeather given a missing or empty list, or more than 10
\* locations, throws a 400 and starts no fetch and no upstream call; the route
\* given such a body answers 400 without any call either.
C2_BadBatchSizeRejected ==
    /\ (op = "batch" /\ BadSize(batch)) =>
          (pc = "done" /\ BadRequestThrown(result) /\ fetch = <<>> /\ NoCalls)
    /\ (op = "postBatch" /\ BadSize(body)) =>
          (pc = "done" /\ response.sent /\ response.status = 400
             /\ fetch = <<>> /\ NoCalls)

\* getBatchWeather was called with 11 locations and threw a 400
C2_Witness ==
    /\ op = "batch" /\ pc = "done" /\ IsDefined(batch)
    /\ Len(Val(batch)) = MAX_BATCH + 1
    /\ BadRequestThrown(result)
    /\ NoCalls

\* the body of the scenario: [{city: "Paris"}, {lat: 999, lon: 0}]
ScenarioBody == Some(<<ParisQuery, BadCoordsQuery>>)

\* C3 as stated: POST /batch with the scenario body is answered 200 with a
\* list of exactly one item.
C3_RouteAnswers200WithOneItem ==
    (op = "postBatch" /\ body = ScenarioBody /\ pc = "done") =>
        (response.sent /\ response.status = 200 /\ Len(response.data) = 1)

\* C3 amended: POST /batch with the scenario body is answered 400 by the body
\* schema before the handler runs (getBatchWeather is not entered, no call is
\* made); getBatchWeather called directly with that list does not throw, drops
\* the out-of-range entry with a 400 of its own and returns the Paris item
\* when the Paris fetch succeeds (always in mock mode).
C3_SchemaRejectsScenario ==
    /\ (op = "postBatch" /\ body = ScenarioBody) =>
          (pc = "done" /\ response.sent /\ response.status = 400
             /\ "getBatchWeather" \notin entered /\ fetch = <<>> /\ NoCalls)
    /\ (op = "batch" /\ batch = ScenarioBody /\ pc = "done") =>
          (/\ result.ok
           /\ fetch[2].status = "rejected"
           /\ Val(fetch[2].reason).code = 400
           /\ Len(result.value) = (IF fetch[1].status = "fulfilled" THEN 1 ELSE 0)
           /\ mode = "mock" => Len(result.value) = 1)

\* the route has answered the scenario body
C3_Witness ==
    /\ op = "postBatch" /\ pc = "done"
    /\ body = ScenarioBody
    /\ response.sent

-----------------------------------------------------------------------------
(* Properties of the Location Resolver, under SpecRealtime *)

\* the LocationQuery getRealTimeWeatherData was called with
TheQuery == Val(batch)[1]

RejectedByResolver ==
    /\ fetch[1].status = "rejected"
    /\ ~IsDefined(fetch[1].location)
    /\ Val(fetch[1].reason).kind = "HttpError"
    /\ Val(fetch[1].reason).code = 400
    /\ NoCalls

\* C4: a query with both lat and lon is resolved (to a Location with those
\* coordinates, and one call is issued) iff -90 <= lat <= 90 and
\* -180 <= lon <= 180; otherwise it is rejected with a 400 and no call,
\* whether or not it has a city.
C4_CoordinatesAcceptedIffInRange ==
    (op = "realtime" /\ IsDefined(TheQuery.lat) /\ IsDefined(TheQuery.lon)) =>
        IF /\ Abs(Val(TheQuery.lat)) <= LAT_MAX * CoordUnit
           /\ Abs(Val(TheQuery.lon)) <= LON_MAX * CoordUnit
        THEN /\ IsDefined(fetch[1].location)
             /\ Val(fetch[1].location).lat = TheQuery.lat
             /\ Val(fetch[1].location).lon = TheQuery.lon
             /\ upstreamCalls + mockCalls = 1
        ELSE RejectedByResolver

\* a latitude just out of range, with a valid city, was rejected with a 400
C4_Witness ==
    /\ op = "realtime" /\ pc = "done"
    /\ TheQuery.lat = Some(LAT_MAX * CoordUnit + 1)
    /\ TheQuery.lon = Some(0)
    /\ TheQuery.city = Some(Paris)
    /\ BadRequestThrown(result)

\* C5 as stated: a query with lat but no lon, or lon but no lat, is rejected
\* (never resolved to a Location) and triggers no call.
C5_LoneCoordinateRejected ==
    (op = "realtime" /\ IsDefined(TheQuery.lat) # IsDefined(TheQuery.lon)) =>
        RejectedByResolver

\* the length of s without its leading and trailing spaces
TrimmedLength(s) ==
    LET inked == {i \in 1..Len(s) : s[i] # " "} IN
    IF inked = {} THEN 0
    ELSE (CHOOSE i \in inked : \A k \in inked : k <= i)
         - (CHOOSE i \in inked : \A k \in inked : k >= i) + 1

\* C6: a query without coordinates is resolved to the Location whose name is
\* the city as given, lat and lon unset (and one call is issued), when the
\* city has at least 2 characters after trimming; otherwise it is rejected
\* with a 400 and no call.
C6_CityOnlyResolution ==
    (op = "realtime" /\ ~IsDefined(TheQuery.lat) /\ ~IsDefined(TheQuery.lon)) =>
        IF IsDefined(TheQuery.city)
           /\ TrimmedLength(Val(TheQuery.city)) >= MIN_CITY_LENGTH
        THEN /\ fetch[1].location =
                    Some([name |-> TheQuery.city, lat |-> Undefined,
                          lon |-> Undefined, country |-> Undefined])
             /\ upstreamCalls + mockCalls = 1
        ELSE RejectedByResolver

\* a city of two characters behind a space was resolved under its given name
C6_Witness ==
    /\ op = "realtime"
    /\ TheQuery = Query(Undefined, Undefined, Some(<<" ", "a", "a">>))
    /\ IsDefined(fetch[1].location)
    /\ Val(fetch[1].location).name = Some(<<" ", "a", "a">>)

-----------------------------------------------------------------------------
(* Properties of the Auth Gate, under SpecAuth *)

\* the tokens a request carries: the credentials of a Bearer header, the query
\* parameter, the cookie
Carried(r) ==
    {h.credentials : h \in {x \in r.authorization : x.scheme = "Bearer"}}
    \cup r.queryToken \cup r.cookieToken

Category(t) ==
    IF t.form = "garbage" THEN "malformed"
    ELSE IF t.form = "jwt" /\ t.secret = "other" THEN "wrong secret"
    ELSE IF t.form = "jwt" /\ t.secret = "configured"
            /\ IsDefined(t.claims.exp) /\ Val(t.claims.exp) < Now
            /\ (IsDefined(t.claims.nbf) => Val(t.claims.nbf) <= Now)
    THEN "expired"
    ELSE "other"

\* the message requireAuth answers a request with, whose only token is t
RejectionDetail(t) ==
    requireAuth(Request(Some(Header("Bearer", t)), Undefined, Undefined)).res.detail

\* C7 as stated: requireAuth answers 401 to a token signed with another
\* secret, to an expired token and to a malformed token, and the messages of
\* the three cases differ pairwise.
C7_RejectionsDistinguishable ==
    \A t \in Carried(req) :
        (op = "requireAuth" /\ pc = "done" /\ Carried(req) = {t}
            /\ Category(t) # "other") =>
          /\ res.sent /\ res.status = 401 /\ nextCalls = 0
          /\ \A u \in TokenSamples :
                Category(u) \notin {"other", Category(t)} =>
                    RejectionDetail(u) # res.detail

SignedAndUnexpired(t) ==
    /\ t.form = "jwt" /\ t.secret = "configured"
    /\ IsDefined(t.claims.exp) /\ Val(t.claims.exp) > Now

Admitted(t) ==
    /\ nextCalls = 1
    /\ ~res.sent
    /\ req.auth = Some(t.claims)
    /\ req.authToken = Some(t)

\* C8 as stated: requireAuth admits every token signed with the configured
\* secret whose exp is in the future: next is called once, nothing is sent,
\* req.auth is its claims and req.authToken the token.
C8_SignedUnexpiredAdmitted ==
    \A t \in Carried(req) :
        (op = "requireAuth" /\ pc = "done" /\ Carried(req) = {t}
            /\ SignedAndUnexpired(t)) => Admitted(t)

\* C8 amended: requireAuth admits every token signed with the configured
\* secret whose exp is in the future and whose nbf, if any, is not: next is
\* called once, nothing is sent, req.auth is its claims unmodified, whatever
\* they are, and req.authToken the token.
C8_SignedActiveUnexpiredAdmitted ==
    \A t \in Carried(req) :
        (op = "requireAuth" /\ pc = "done" /\ Carried(req) = {t}
            /\ SignedAndUnexpired(t)
            /\ (IsDefined(t.claims.nbf) => Val(t.claims.nbf) <= Now)) =>
          Admitted(t)

\* a refresh-typed token with a past nbf, carried in the cookie, was admitted
C8_Witness ==
    LET t == Token("jwt", "configured",
                   [exp |-> Some(Now + 1), nbf |-> Some(Now - 1),
                    tokenType |-> Some("refresh")])
    IN  /\ op = "requireAuth" /\ pc = "done"
        /\ req.cookieToken = Some(t)
        /\ Carried(req) = {t}
        /\ Admitted(t)

\* no Bearer credentials, no query token, no cookie token (an empty string
\* counts as none)
NoTokenCarried(r) ==
    /\ \A h \in r.authorization :
          h.scheme # "Bearer" \/ h.credentials.form \in {"empty", "blank"}
    /\ \A t \in r.queryToken : t.form = "empty"
    /\ \A t \in r.cookieToken : t.form = "empty"

\* C9: requireAuth, in its simple and in its deprecated variant, answers a
\* request without any token with 401 "Authentication token required", does
\* not call next and attaches nothing to the request.
C9_MissingTokenRejected ==
    (op \in {"requireAuth", "requireAuthLegacy"} /\ pc = "done"
        /\ NoTokenCarried(req)) =>
      /\ res.sent /\ res.status = 401
      /\ res.detail = "Authentication token required"
      /\ nextCalls = 0
      /\ req.auth = Undefined /\ req.authToken = Undefined
      /\ req.authUser = Undefined /\ req.tokenType = Undefined

\* a request with a Basic header and an empty query token was answered 401
C9_Witness ==
    /\ op = "requireAuth" /\ pc = "done"
    /\ req.authorization = Some(Header("Basic", GarbageToken))
    /\ req.queryToken = Some(EmptyToken)
    /\ req.cookieToken = Undefined
    /\ res.sent /\ res.status = 401

\* C10: optionalAuth and optionalAccessToken call next exactly once and send
\* nothing, whatever token the request carries.
C10_OptionalNeverRejects ==
    (op \in {"optionalAuth", "optionalAccessToken"} /\ pc = "done") =>
        (nextCalls = 1 /\ ~res.sent)

\* optionalAuth passed on a request whose unexpired token is signed with
\* another secret, attaching nothing
C10_Witness ==
    /\ op = "optionalAuth" /\ pc = "done"
    /\ \E t \in Carried(req) :
          /\ Carried(req) = {t}
          /\ t.form = "jwt" /\ t.secret = "other"
          /\ t.claims.exp = Some(Now + 1)
    /\ nextCalls = 1
    /\ req.auth = Undefined

-----------------------------------------------------------------------------
(* Properties of the token-type variant of the Auth Gate, under SpecAuth *)

\* a well-formed token signed with the configured secret that jwt.verify does
\* not find expired
SignedAndNotExpired(t) ==
    /\ t.form = "jwt" /\ t.secret = "configured"
    /\ (IsDefined(t.claims.exp) => Val(t.claims.exp) > Now)

NothingAttached ==
    /\ req.auth = Undefined /\ req.authToken = Undefined
    /\ req.authUser = Undefined /\ req.tokenType = Undefined

\* C11: requireAccessToken lets a validly signed, unexpired token through
\* (calls next) only if its tokenType is "access", requireRefreshToken only if
\* it is "refresh"; with the other value or with no tokenType the answer is a
\* 401, next is not called and nothing is attached to the request.
C11_TokenTypeEnforced ==
    \A t \in Carried(req) :
        (op \in {"requireAccessToken", "requireRefreshToken"} /\ pc = "done"
            /\ Carried(req) = {t} /\ SignedAndNotExpired(t)) =>
          LET wanted == IF op = "requireAccessToken" THEN "access" ELSE "refresh"
          IN  /\ nextCalls >= 1 => t.claims.tokenType = Some(wanted)
              /\ t.claims.tokenType # Some(wanted) =>
                    (/\ res.sent /\ res.status = 401
                     /\ nextCalls = 0
                     /\ NothingAttached)

\* requireAccessToken answered a signed, unexpired refresh token with a 401
C11_Witness ==
    LET t == Token("jwt", "configured",
                   [exp |-> Some(Now + 1), nbf |-> Undefined,
                    tokenType |-> Some("refresh")])
    IN  /\ op = "requireAccessToken" /\ pc = "done"
        /\ Carried(req) = {t}
        /\ res.sent /\ res.status = 401
        /\ res.detail = "Invalid token type - access token required"
        /\ nextCalls = 0

-----------------------------------------------------------------------------
(* Properties of the upstream client, under SpecRealtime *)

\* C12: in live mode a failed provider call rejects its fetch with exactly one
\* HttpError chosen by the HTTP status: 401, 403, 404 and 429 keep their
\* status, any 5xx becomes 500 "Tomorrow.io API server error", any other
\* status and a call without a response become 500 "Failed to fetch weather
\* data"; getRealTimeWeatherData throws that error unchanged.
C12_UpstreamErrorMapping ==
    \A i \in 1..Len(fetch) :
        \A s \in fetch[i].answer :
            s # HTTP_OK =>
              LET e == Val(fetch[i].reason) IN
              /\ mode = "live"
              /\ fetch[i].status = "rejected"
              /\ e.kind = "HttpError"
              /\ <<e.code, e.title, e.detail>> =
                    (CASE s = 401 ->
                            <<401, "Unauthorized", "Invalid Tomorrow.io API key">>
                       [] s = 403 ->
                            <<403, "Forbidden", "Tomorrow.io API access forbidden">>
                       [] s = 404 -> <<404, "Not Found", "Location not found">>
                       [] s = 429 ->
                            <<429, "Too Many Requests",
                              "Tomorrow.io API rate limit exceeded">>
                       [] s \in 500..599 ->
                            <<500, "Internal Server Error",
                              "Tomorrow.io API server error">>
                       [] OTHER ->
                            <<500, "Internal Server Error",
                              "Failed to fetch weather data">>)
              /\ (op = "realtime" /\ pc = "done") => result = Throw(e)

\* the provider answered 500 and getRealTimeWeatherData threw the provider
\* server error
C12_Witness ==
    /\ op = "realtime" /\ pc = "done"
    /\ fetch[1].answer = Some(SERVER_ERROR_MIN)
    /\ ~result.ok
    /\ result.error.code = 500
    /\ result.error.detail = "Tomorrow.io API server error"


\* getBatchWeather has started its fetches
BatchStarted == op \in {"batch", "postBatch"} /\ Len(fetch) > 0

\* getBatchWeather has resumed after its await
BatchResumed == BatchStarted /\ pc \in {"respond", "done"}

\* the positions whose location the resolver accepts
Resolvable == {i \in 1..Len(fetch) : resolveLocation(Val(batch)[i]).ok}

\* one fetch per location: a location the resolver rejects gives a promise
\* rejected at once, every other location a call for the location resolved
OneFetchPerLocation ==
    /\ Len(fetch) = Len(Val(batch))
    /\ \A i \in 1..Len(fetch) :
          IF i \in Resolvable
          THEN fetch[i].location = Some(resolveLocation(Val(batch)[i]).value)
          ELSE fetch[i] = Rejected(resolveLocation(Val(batch)[i]).error)
    /\ upstreamCalls + mockCalls = Cardinality(Resolvable)

\* a step changes at most one fetch, one that was awaiting; a settled fetch
\* stays as it is and the fetches are the same ones throughout
SiblingsUntouched ==
    BatchStarted =>
        /\ Len(fetch') = Len(fetch)
        /\ \A i \in 1..Len(fetch) :
              fetch'[i] # fetch[i] =>
                  /\ fetch[i].status = "awaiting"
                  /\ \A j \in 1..Len(fetch) : j # i => fetch'[j] = fetch[j]

\* C20: getBatchWeather starts one fetch per input location and returns only
\* after every one of them has settled; the failure of a fetch (a rejection
\* by the resolver included) neither cancels a sibling nor prevents its start
\* or its completion.
C20_AllFetchesSettleIndependently ==
    /\ [](BatchStarted => OneFetchPerLocation)
    /\ [](BatchResumed => result.ok /\ \A i \in 1..Len(fetch) : Settled(fetch[i]))
    /\ [][SiblingsUntouched]_vars

\* a batch returned after a rejection by the resolver, a failed provider call
\* and, at a later position, a fetch that was started and completed
C20_Witness ==
    /\ op = "batch"
    /\ pc = "done"
    /\ result.ok
    /\ \E i, j, k \in 1..Len(fetch) :
          /\ i < k
          /\ fetch[i].status = "rejected" /\ ~IsDefined(fetch[i].location)
          /\ fetch[j].answer = Some(NO_STATUS)
          /\ IsFulfilled(fetch[k])
    /\ Len(result.value) >= 1


\* the non-empty strings among the values of a source
NonEmptyTokens(o) == {t \in o : t.form # "empty"}

\* the Bearer token of the Authorization header: what follows 'Bearer ',
\* without the white space around it
BearerToken(r) ==
    {TrimToken(h.credentials) : h \in {x \in r.authorization : x.scheme = "Bearer"}}

\* the token of the highest-priority source that holds a non-empty one
ChosenByPriority(r) ==
    IF NonEmptyTokens(BearerToken(r)) # {} THEN NonEmptyTokens(BearerToken(r))
    ELSE IF NonEmptyTokens(r.queryToken) # {} THEN NonEmptyTokens(r.queryToken)
    ELSE NonEmptyTokens(r.cookieToken)

\* C22: requireAuth validates the token chosen by fixed priority: the Bearer
\* token of the Authorization header when present and non-empty, otherwise
\* the non-empty token query parameter, otherwise the non-empty token cookie,
\* otherwise none; when the chosen token fails validation the request is
\* rejected with the error of that token, whatever the lower-priority sources
\* hold.
C22_TokenChosenByPriority ==
    (op = "requireAuth" /\ pc = "done") =>
        LET chosen == ChosenByPriority(Arrived(req)) IN
        IF chosen = {}
        THEN /\ res = sendError(unauthorized("Authentication token required"))
             /\ nextCalls = 0
             /\ NothingAttached
        ELSE IF validateToken(Val(chosen)).ok
        THEN /\ req.authToken = chosen
             /\ req.auth = Some(validateToken(Val(chosen)).value)
             /\ nextCalls = 1
             /\ ~res.sent
        ELSE /\ res = sendError(validateToken(Val(chosen)).error)
             /\ nextCalls = 0
             /\ NothingAttached

\* a malformed Bearer token was rejected although the query parameter and
\* the cookie held a token that validates
C22_Witness ==
    /\ op = "requireAuth"
    /\ pc = "done"
    /\ BearerToken(req) = {GarbageToken}
    /\ \E t \in req.queryToken : validateToken(t).ok
    /\ \E t \in req.cookieToken : validateToken(t).ok
    /\ res = sendError(unauthorized("Malformed token"))
    /\ nextCalls = 0


\* C23: optionalAuth performs the checks of requireAuth: it attaches the
\* claims and the token to the request exactly when requireAuth accepts the
\* same request, and attaches nothing whenever requireAuth rejects it.
C23_OptionalAgreesWithRequired ==
    (op = "optionalAuth" /\ pc = "done") =>
        LET required == requireAuth(Arrived(req)) IN
        IF required.next = 1
        THEN /\ req.auth = required.req.auth
             /\ req.authToken = required.req.authToken
        ELSE NothingAttached

\* the realtime request has succeeded
RealtimeSucceeded ==
    op = "realtime" /\ pc = "done" /\ Len(fetch) = 1 /\ fetch[1].status = "fulfilled"

\* C26: for every successful realtime request the location of the returned
\* WeatherData is the Location the resolver produced, verbatim: the same name,
\* and lat and lon unset when the query was city-only.
C26_LocationVerbatim ==
    RealtimeSucceeded => Val(fetch[1].value).location = Val(fetch[1].location)

-----------------------------------------------------------------------------
(* The database module driven by any sequence of calls and driver events *)

\* the number of driver calls of each kind a run issues
MaxDbCalls == 2

NoDbCallInFlight == db.pending = "none"

\* connectDB is called
ConnectDB ==
    /\ NoDbCallInFlight
    /\ db.isConnected \/ db.connects < MaxDbCalls
    /\ db' = connectDBStart(db)
    /\ UNCHANGED <<mode, rand, op, pc, weatherVars, authVars, boot, steps, listening,
                   exitCode>>

\* DB.connect resolves or rejects
ConnectSettle(ok) ==
    /\ db.pending = "connect"
    /\ db' = connectDBSettle(db, ok)
    /\ UNCHANGED <<mode, rand, op, pc, weatherVars, authVars, boot, steps, listening,
                   exitCode>>

\* disconnectDB is called
DisconnectDB ==
    /\ NoDbCallInFlight
    /\ ~db.isConnected \/ db.disconnects < MaxDbCalls
    /\ db' = disconnectDBStart(db)
    /\ UNCHANGED <<mode, rand, op, pc, weatherVars, authVars, boot, steps, listening,
                   exitCode>>

\* DB.disconnect resolves or rejects
DisconnectSettle(ok) ==
    /\ db.pending = "disconnect"
    /\ db' = disconnectDBSettle(db, ok)
    /\ UNCHANGED <<mode, rand, op, pc, weatherVars, authVars, boot, steps, listening,
                   exitCode>>

\* the connection emits an event: 'error' at any time, 'connected' and
\* 'reconnected' while it is down, 'disconnected' while it is up
DriverEvent(event) ==
    /\ event = "disconnected" => db.readyState = 1
    /\ event \in {"connected", "reconnected"} => db.readyState = 0
    /\ event = "reconnected" => db.listeners > 0
    /\ db' = driverEvent(db, event)
    /\ UNCHANGED <<mode, rand, op, pc, weatherVars, authVars, boot, steps, listening,
                   exitCode>>

NextDatabase ==
    \/ ConnectDB
    \/ \E ok \in BOOLEAN : ConnectSettle(ok)
    \/ DisconnectDB
    \/ \E ok \in BOOLEAN : DisconnectSettle(ok)
    \/ \E event \in DriverEvents : DriverEvent(event)

SpecDatabase == InitStartup /\ [][NextDatabase]_vars

-----------------------------------------------------------------------------
(* Properties of the gateway, under SpecGateway *)

\* GET /weather/realtime?city=London&format=compact has been answered
LondonCompactAnswered ==
    /\ op = "getRealtime"
    /\ pc = "done"
    /\ body = Some([query |-> LondonQuery, format |-> Some("compact")])

HealthAnswered == op = "getHealth" /\ pc = "done"

\* what checkApiHealth reported to getServiceHealth
UpstreamReport == result.value.services.tomorrowApi.status

\* C14: GET /weather/health answers 200 with status healthy iff the upstream
\* health check reports healthy, and 503 with status unhealthy otherwise; the
\* upstream check never raises, reports healthy in mock mode without a probe,
\* and in live mode reports healthy iff its single probe call for location
\* 0,0 succeeds.
C14_HealthFollowsProbe ==
    HealthAnswered =>
        /\ result.ok
        /\ response.sent
        /\ UpstreamReport \in {"healthy", "unhealthy"}
        /\ UpstreamReport = "healthy" =>
              response.status = 200 /\ response.health.status = "healthy"
        /\ UpstreamReport # "healthy" =>
              response.status = 503 /\ response.health.status = "unhealthy"
        /\ mode = "mock" => UpstreamReport = "healthy" /\ fetch = <<>>
        /\ mode = "live" =>
              /\ Len(fetch) = 1
              /\ fetch[1].location = Some(ProbeLocation)
              /\ UpstreamReport = "healthy" <=> fetch[1].answer = Some(HTTP_OK)

\* the probe failed without an HTTP status (a network error) and the route
\* answered 503 unhealthy
C14_Witness ==
    /\ HealthAnswered
    /\ mode = "live"
    /\ fetch[1].answer = Some(NO_STATUS)
    /\ response.status = 503
    /\ response.health.status = "unhealthy"


\* GET /weather/forecast has been answered for a location the resolver
\* accepted: getWeatherForecastData made its call
ForecastFetched ==
    /\ op = "getForecast"
    /\ pc = "done"
    /\ Len(fetch) = 1
    /\ IsDefined(fetch[1].location)

\* the timesteps getWeatherForecastData was called with
RequestedTimesteps == OrElse(Val(body).timesteps, "1h")

\* C17: in mock mode getWeatherForecastData succeeds for every valid location
\* and returns exactly 24 intervals for timestep 1h and exactly 7 intervals
\* for timestep 1d.
C17_MockForecastAccepted ==
    (mode = "mock" /\ ForecastFetched) =>
        /\ result.ok
        /\ Len(result.value.intervals) = intervalCount(RequestedTimesteps)


\* the handling of the request raised an error and the request is over
ErrorRaised == pc = "done" /\ ~result.ok /\ result.error.kind # "none"

\* C18: every error raised while handling a request yields exactly one error
\* response: an HttpError is rendered with its own status code, title and
\* detail, any other error with status 500, in the catch of the route handlers
\* and in the top-level error handler alike.
C18_OtherErrorsRendered500 ==
    ErrorRaised =>
        /\ response.sent
        /\ result.error.kind = "HttpError" =>
              /\ response.status = result.error.code
              /\ response.title = result.error.title
              /\ response.detail = result.error.detail
        /\ result.error.kind # "HttpError" => response.status = 500


\* the calls made to the client so far
ClientCalls == upstreamCalls + mockCalls

\* a realtime or forecast request for one location is being handled
SingleLocationOp == op \in {"getRealtime", "getForecast"}

\* a step of a single-location operation: the step that starts it makes one
\* call when the resolver accepted the location and none otherwise, every
\* later step makes none
AtMostOneCall ==
    SingleLocationOp' =>
        IF op = "none" /\ Len(fetch') = 1 /\ fetch'[1].status = "awaiting"
        THEN ClientCalls' = ClientCalls + 1
        ELSE ClientCalls' = ClientCalls

\* the call of the operation failed with an HTTP status (or with none)
CallFailed ==
    /\ SingleLocationOp
    /\ Len(fetch) = 1
    /\ IsDefined(fetch[1].answer)
    /\ fetch[1].answer # Some(HTTP_OK)

\* C21: a single-location realtime or forecast operation issues at most one
\* upstream call: when the call fails the operation fails with the mapped
\* error and no second attempt is made, and when the resolver rejects the
\* location no call is made at all.
C21_AtMostOneCallNoRetry ==
    /\ [][AtMostOneCall]_vars
    /\ [](CallFailed =>
            /\ fetch[1].status = "rejected"
            /\ fetch[1].reason = Some(mapUpstreamError(Val(fetch[1].answer)))
            /\ pc = "done" => result = Throw(mapUpstreamError(Val(fetch[1].answer))))
    /\ []((SingleLocationOp /\ Len(fetch) = 1 /\ ~IsDefined(fetch[1].location)) =>
            /\ fetch[1].status = "rejected"
            /\ fetch[1].answer = Undefined)

\* a forecast request whose only call was answered 503 has failed with the
\* provider server error
C21_Witness ==
    /\ op = "getForecast"
    /\ pc = "done"
    /\ Len(fetch) = 1
    /\ fetch[1].answer = Some(503)
    /\ upstreamCalls = 1
    /\ result = Throw(internalServerError("Tomorrow.io API server error"))
    /\ response.status = 500


\* the handler of the gated route, or the weather service, has been reached
ServiceReached ==
    \/ Len(fetch) > 0
    \/ entered \cap {"getWeatherWithFormat", "getRealTimeWeatherData"} # {}
    \/ result # NoResult

\* requireAuth found no token in the request it received, or one that fails
\* validation
TokenMissingOrInvalid ==
    \/ ChosenByPriority(Arrived(req)) = {}
    \/ ~validateToken(Val(ChosenByPriority(Arrived(req)))).ok

-----------------------------------------------------------------------------
(* Properties of the pure functions of the normalizer, under SpecNormalizer *)

\* C15: getWeatherDescription is total: for every integer code (negative,
\* zero, listed or not) it returns a non-empty string, the entry of
\* WEATHER_CODES when the code is one of its keys and "Unknown" for every
\* other code; so does the copy of it in services/weatherService.
C15_DescriptionTotal ==
    (pc = "done" /\ op \in {"getWeatherDescription", "legacyGetWeatherDescription"}) =>
        LET code == Val(body).code IN
        /\ result.ok
        /\ result.value # ""
        /\ code \in DOMAIN WEATHER_CODES => result.value = WEATHER_CODES[code]
        /\ code \notin DOMAIN WEATHER_CODES => result.value = "Unknown"

\* a negative code that is not listed has been described
C15_Witness ==
    /\ pc = "done"
    /\ op = "getWeatherDescription"
    /\ Val(body).code < 0
    /\ result.value = "Unknown"

\* the numeric fields of a sanitized WeatherData
NumericFields(w) ==
    <<w.temperature, w.humidity, w.windSpeed, w.windDirection,
      w.precipitation.intensity, w.precipitation.probability, w.visibility,
      w.uvIndex, w.cloudCover, w.pressure, w.location.lat, w.location.lon>>

\* C16: sanitizeWeatherData is idempotent on the numeric fields: applied to a
\* value it returned, it returns a value whose temperature, humidity,
\* windSpeed, windDirection, precipitation intensity and probability,
\* visibility, uvIndex, cloudCover, pressure and location lat/lon are those
\* of its argument.
C16_SanitizeIdempotent ==
    op = "sanitizeAgain" =>
        /\ result.ok
        /\ NumericFields(result.value)
              = NumericFields(sanitizeWeatherData(Val(body).data).value)

\* a WeatherData that its first sanitization changed (its temperature had a
\* third decimal, its latitude a fifth) has been sanitized twice
C16_Witness ==
    /\ op = "sanitizeAgain"
    /\ result.ok
    /\ Val(body).data.temperature # Some(result.value.temperature)
    /\ Val(body).data.location.lat # result.value.location.lat
    /\ result.value.temperature < 0

-----------------------------------------------------------------------------
(* Properties of the startup, under SpecStartup *)

StepFailed == \E i \in 1..Len(steps) : ~steps[i].ok

\* the names of the steps that ran, in order
StepNames == [i \in 1..Len(steps) |-> steps[i].step]

IsPrefix(s, t) == Len(s) <= Len(t) /\ \A i \in 1..Len(s) : s[i] = t[i]

\* C19: if a startup step fails (for example the database connection), the
\* process exits with a non-zero code and the HTTP server never listens; the
\* server listens only after the database connection, the middleware, the
\* routes and the error handlers have been set up, in that order.
C19_StartupFailureIsFatal ==
    /\ StepFailed =>
          /\ IsDefined(exitCode)
          /\ Val(exitCode) # 0
          /\ ~listening
    /\ IsPrefix(StepNames, StartupOrder \o <<"listen">>)
    /\ listening =>
          /\ ~StepFailed
          /\ StepNames = StartupOrder \o <<"listen">>

\* the database connection failed: the process exited with 1 before any
\* other step ran
C19_Witness ==
    /\ steps = <<Ran("connectDB", FALSE)>>
    /\ exitCode = Some(1)
    /\ ~listening

\* a signal has been delivered to the started process
Signalled == op \in Signals

\* C28: after SIGTERM or SIGINT is received by the fully started process the
\* shutdown is graceful: the process exits with code 0 only after the HTTP
\* server has finished closing (and with 1 when closing takes longer than the
\* 10 second timeout).
C28_ExitZeroOnlyAfterClose ==
    (Signalled /\ exitCode = Some(0)) => ~listening

-----------------------------------------------------------------------------
(* Properties of the database module, under SpecDatabase *)

\* the most recent call or event was a successful connectDB or 'reconnected'
LastConnects == db.last \in {Did("connectDB", TRUE), Did("reconnected", TRUE)}

DriverConnectOnlyWhileClear == [][db'.connects > db.connects => ~db.isConnected]_vars

DriverDisconnectOnlyWhileSet ==
    [][db'.disconnects > db.disconnects => db.isConnected]_vars

\* a call that threw leaves the flag as it was
FailedCallKeepsFlag ==
    [][(db.pending # "none" /\ db'.pending = "none" /\ ~db'.last.ok)
          => db'.isConnected = db.isConnected]_vars

\* C29 as stated: across any sequence of connectDB, disconnectDB and driver
\* events the isConnected flag is true exactly when the most recent of them
\* was a successful connectDB or a 'reconnected' event; connectDB issues a
\* driver connect only while the flag is false and disconnectDB a driver
\* disconnect only while it is true.
C29_FlagFollowsMostRecent ==
    /\ [](db.isConnected <=> LastConnects)
    /\ DriverConnectOnlyWhileClear
    /\ DriverDisconnectOnlyWhileSet

\* C29, amended: a call that threw (DB.disconnect or DB.connect rejected)
\* leaves the flag as it was; whenever the most recent call or event did not
\* throw, the flag is true exactly when it was a successful connectDB or a
\* 'reconnected' event; the driver calls are issued as stated.
C29_FlagFollowsMostRecentCompleted ==
    /\ [](db.last.ok => (db.isConnected <=> LastConnects))
    /\ FailedCallKeepsFlag
    /\ DriverConnectOnlyWhileClear
    /\ DriverDisconnectOnlyWhileSet

\* DB.disconnect rejected: disconnectDB threw and the flag is still set
C29_Witness ==
    /\ db.last = Did("disconnectDB", FALSE)
    /\ db.isConnected
    /\ db.disconnects > 0

-----------------------------------------------------------------------------
(* Further properties of the normalizer, under SpecNormalizer *)

\* the realtime normalizer has returned a WeatherData
Normalized == op = "transformRealtimeResponse" /\ pc = "done" /\ result.ok

\* the entry of the table for a weatherCode, "Unknown" for a code that is not
\* a key and for no code
TableLookup(weatherCode) ==
    IF weatherCode # Undefined /\ Val(weatherCode) \in DOMAIN WEATHER_CODES
    THEN WEATHER_CODES[Val(weatherCode)]
    ELSE "Unknown"

\* C25: every WeatherData the realtime normalizer returns has as description
\* the table entry of its own weatherCode, "Unknown" when the weatherCode is
\* not a key of the table, also when the payload carries no weatherCode.
C25_DescriptionFollowsCode ==
    Normalized => result.value.description = TableLookup(result.value.weatherCode)

\* the forecast normalizer has returned for the payload in body
ForecastNormalized == op = "getWeatherForecastData" /\ pc = "done" /\ result.ok

\* the intervals of the upstream timeline
UpstreamIntervals == Val(body).forecast.timelines.items[1].intervals

\* the output interval is the one derived from the upstream interval
DerivedFrom(out, interval) ==
    /\ out.time = interval.startTime
    /\ out.temperature = interval.values.temperature
    /\ out.windSpeed = interval.values.windSpeed
    /\ out.windDirection = interval.values.windDirection
    /\ out.precipitation.intensity = interval.values.precipitationIntensity
    /\ out.precipitation.probability = interval.values.precipitationProbability
    /\ out.condition = getWeatherDescription(interval.values.weatherCode)

\* C27: the forecast normalizer never reorders, drops or duplicates intervals:
\* the output has as many intervals as the upstream timeline and the i-th
\* output interval is derived from the i-th upstream interval.
C27_IntervalsInUpstreamOrder ==
    ForecastNormalized =>
        /\ Len(result.value.intervals) = Len(UpstreamIntervals)
        /\ \A i \in 1..Len(UpstreamIntervals) :
              DerivedFrom(result.value.intervals[i], UpstreamIntervals[i])

\* a timeline that is not in ascending order and repeats an interval has been
\* normalized
C27_Witness ==
    /\ ForecastNormalized
    /\ Len(UpstreamIntervals) = MaxIntervals
    /\ Val(UpstreamIntervals[1].startTime) > Val(UpstreamIntervals[2].startTime)
    /\ UpstreamIntervals[2] = UpstreamIntervals[3]

\* fetchWeatherData was given a query with both lat and lng
FetchedWithCoordinates ==
    /\ op = "fetchWeatherData"
    /\ pc = "done"
    /\ IsDefined(Val(body).legacy.lat)
    /\ IsDefined(Val(body).legacy.lng)

\* C30: in the legacy service fetchWeatherData, given a query with both lat and
\* lng present and in range, the value 0 included, fetches by exactly those
\* coordinates: it neither geocodes the city nor rejects the query as lacking
\* a location.
C30_FetchesByGivenCoordinates ==
    FetchedWithCoordinates =>
        result = Return([request |-> "realtime", lat |-> Val(Val(body).legacy.lat),
                         lng |-> Val(Val(body).legacy.lng)])

====
